---- MODULE Spec2Model ----
(***************************************************************************)
(* Model of annotation_utils.py: labelled Points and Intervals, the sorted *)
(* PointTier / IntervalTier containers, the Praat tier codec and the       *)
(* TextGrid document container.                                            *)
(*                                                                         *)
(* Times are integers (the code's floats restricted to integral values;    *)
(* negative values are kept where the code has to reject them).  A ranged  *)
(* value is a record [start_time, end_time, text]; a Point is the ranged   *)
(* value with start_time = end_time, as in class Point(Interval).          *)
(***************************************************************************)
EXTENDS Integers, Sequences, FiniteSets, TLC

\* ---- bounds of the model ----
MaxTime == 2
MaxLen == 3
MaxWritten == 2     \* elements of a tier that is written to a file
MaxTextLen == 1     \* characters of a text that is written to a file

Times == 0..MaxTime
\* a text is a sequence of characters
Texts == {<<"a">>, <<"b">>}

VARIABLES
    kind,     \* class of the tier under test: "PointTier" or "IntervalTier"
    tier,     \* the tier: [start_time, end_time, objects]; in SpecExtract the
              \* tier being filled, which also carries cls and name
    last,     \* the last call made on the tier, its arguments, outcome and pre-state
    pending,  \* SpecOrder: the two insertion orders still to be applied
    built,    \* SpecOrder: the two tiers built so far
    pc,       \* SpecPraat: "build", "written" or "read"; SpecExtract: "build",
              \* "tier", "written" or "done"
    file,     \* SpecPraat, SpecExtract: the characters of the file written
    loaded,   \* SpecPraat: outcome of from_file, [tier, raised]
    value,    \* SpecPrim: an Interval or Point, [cls, start_time, end_time, text]
    prim,     \* SpecPrim: the last operation on value: [op, raised, pre]
    elems,    \* SpecAlias: the Point objects allocated, an object is its index
    tiers,    \* SpecAlias: the PointTier objects allocated; objects holds indices
    grid,     \* SpecAlias: the TextGrid; objects holds indices into tiers
    held,     \* SpecAlias: the Point objects the caller has a reference to
    alias,    \* SpecAlias: the last step: [op, pre]; for a caller's mutation pre is
              \* what the containers stored before it
    tg,       \* SpecGrid, SpecExtract: the TextGrid, [start_time, end_time, objects]
    tgop,     \* SpecGrid: the last operation on tg: [op, name, raised, pre]
    ret       \* the last call that returns a value and leaves its object alone:
              \* [op, its arguments, its result]

tierVars == <<kind, tier, last>>
orderVars == <<pending, built>>
praatVars == <<pc, file, loaded>>
primVars == <<value, prim>>
aliasVars == <<elems, tiers, grid, held, alias>>
gridVars == <<tg, tgop>>

\* ---------------------------------------------------------------------
\* Temporal primitives
\* ---------------------------------------------------------------------
Min(a, b) == IF a <= b THEN a ELSE b
Max(a, b) == IF a >= b THEN a ELSE b

\* Interval.__init__: negative bounds raise, inverted bounds are swapped.
Interval_raises(start_time, end_time) == start_time < 0 \/ end_time < 0

Interval(start_time, end_time, text) ==
    IF start_time > end_time
    THEN [start_time |-> end_time, end_time |-> start_time, text |-> text]
    ELSE [start_time |-> start_time, end_time |-> end_time, text |-> text]

\* Point.__init__
Point(time, text) == Interval(time, time, text)

\* Interval.__lt__ against a ranged value
Interval_lt(self, other) == self.end_time <= other.start_time

\* Interval.__gt__ against a ranged value
Interval_gt(self, other) == other.end_time <= self.start_time

\* a comparison of Points that admits equal times
Point_lt_or_equal(self, other) == self.start_time <= other.start_time

\* Point.__lt__ against a ranged value (self.time is self.start_time)
Point_lt(self, other) == self.start_time < other.start_time

\* Point.__gt__ against a ranged value
Point_gt(self, other) == other.end_time < self.start_time

\* a < b for two objects carrying their class.  Point is a subclass of
\* Interval that overrides __lt__ and __gt__, so with an Interval on the
\* left and a Point on the right the reflected method of the Point is
\* tried first.
lt(a, b) ==
    IF a.cls = "Interval" /\ b.cls = "Point" THEN Point_gt(b, a)
    ELSE IF a.cls = "Point" THEN Point_lt(a, b)
    ELSE Interval_lt(a, b)

\* a > b
gt(a, b) ==
    IF a.cls = "Interval" /\ b.cls = "Point" THEN Point_lt(b, a)
    ELSE IF a.cls = "Point" THEN Point_gt(a, b)
    ELSE Interval_gt(a, b)

\* an overlap test that counts touching bounds
overlaps_touching(self, other) ==
    self.start_time <= other.end_time /\ self.end_time >= other.start_time

\* Interval.overlaps
overlaps(self, other) ==
    self.start_time < other.end_time /\ self.end_time > other.start_time

\* Interval.__eq__ : bounds only, the text is ignored
Interval_eq(self, other) ==
    self.start_time = other.start_time /\ self.end_time = other.end_time

NoValue == [cls |-> "Interval", start_time |-> 0, end_time |-> 0, text |-> <<>>]

\* ---------------------------------------------------------------------
\* In-place operations of Interval and Point; self is
\* [cls, start_time, end_time, text], the result is [value, raised]
\* ---------------------------------------------------------------------
\* Interval.start_time setter
set_start_time(self, other) ==
    IF other < 0 \/ other > self.end_time
    THEN [value |-> self, raised |-> TRUE]
    ELSE [value |-> [self EXCEPT !.start_time = other], raised |-> FALSE]

\* Interval.end_time setter
set_end_time(self, other) ==
    IF other < 0 \/ other < self.start_time
    THEN [value |-> self, raised |-> TRUE]
    ELSE [value |-> [self EXCEPT !.end_time = other], raised |-> FALSE]

\* Point.time setter: both fields are assigned, nothing is checked
set_time(self, other) ==
    [value |-> [self EXCEPT !.start_time = other, !.end_time = other],
     raised |-> FALSE]

\* Interval.__iadd__ with a number: the fields are assigned directly
iadd_scalar(self, other) ==
    [value |-> [self EXCEPT !.start_time = self.start_time + other,
                            !.end_time = self.end_time + other],
     raised |-> FALSE]

\* Interval.__iadd__ with a ranged value
iadd_ranged(self, other) ==
    [value |-> [self EXCEPT !.start_time = Min(self.start_time, other.start_time),
                            !.end_time = Max(self.end_time, other.end_time),
                            !.text = self.text \o other.text],
     raised |-> FALSE]

\* Interval.__isub__: through the two setters, start_time first
isub_scalar(self, other) ==
    LET r1 == set_start_time(self, self.start_time - other)
    IN  IF r1.raised THEN r1
        ELSE set_end_time(r1.value, r1.value.end_time - other)

\* Interval.concatenate with a ranged value
concatenate(self, other, delimiter) ==
    [value |-> [self EXCEPT !.start_time = Min(self.start_time, other.start_time),
                            !.end_time = Max(self.end_time, other.end_time),
                            !.text = self.text \o delimiter \o other.text],
     raised |-> FALSE]

\* Interval(...) / Point(...) as an object carrying its class
new_Interval(start_time, end_time, text) ==
    IF Interval_raises(start_time, end_time)
    THEN [value |-> NoValue, raised |-> TRUE]
    ELSE [value |-> [cls |-> "Interval",
                     start_time |-> Interval(start_time, end_time, text).start_time,
                     end_time |-> Interval(start_time, end_time, text).end_time,
                     text |-> text],
          raised |-> FALSE]

\* Interval.__add__ with a number: a new Interval, also for a Point
add_scalar(self, other) ==
    new_Interval(self.start_time + other, self.end_time + other, self.text)

\* Interval.__sub__
sub_scalar(self, other) ==
    new_Interval(self.start_time - other, self.end_time - other, self.text)

new_Point(time, text) ==
    IF Interval_raises(time, time)
    THEN [value |-> NoValue, raised |-> TRUE]
    ELSE [value |-> [cls |-> "Point", start_time |-> Point(time, text).start_time,
                     end_time |-> Point(time, text).end_time, text |-> text],
          raised |-> FALSE]

\* ---------------------------------------------------------------------
\* _Tier
\* ---------------------------------------------------------------------
\* _Tier.__init__: no check that start_time <= end_time
Tier_raises(start_time, end_time) == start_time < 0 \/ end_time < 0

Tier(start_time, end_time) ==
    [start_time |-> start_time, end_time |-> end_time, objects |-> <<>>]

\* _Tier.start_time setter; result [tier, raised]
Tier_set_start_time(self, other) ==
    IF other < 0 \/ other > self.end_time
    THEN [tier |-> self, raised |-> TRUE]
    ELSE [tier |-> [self EXCEPT !.start_time = other], raised |-> FALSE]

\* _Tier.end_time setter
Tier_set_end_time(self, other) ==
    IF other < 0 \/ other < self.start_time
    THEN [tier |-> self, raised |-> TRUE]
    ELSE [tier |-> [self EXCEPT !.end_time = other], raised |-> FALSE]

\* bisect.bisect_right(a, x) with the comparison x < a[mid] taken from
\* the class of x; lo and hi are 0-based as in the library.
RECURSIVE bisect_loop(_, _, _, _, _)
bisect_loop(a, x, lo, hi, cls) ==
    IF lo < hi
    THEN LET mid == (lo + hi) \div 2
             less == IF cls = "Point" THEN Point_lt(x, a[mid + 1])
                                      ELSE Interval_lt(x, a[mid + 1])
         IN  IF less THEN bisect_loop(a, x, lo, mid, cls)
                     ELSE bisect_loop(a, x, mid + 1, hi, cls)
    ELSE lo

bisect_right(a, x, cls) == bisect_loop(a, x, 0, Len(a), cls)

\* list.insert(i, x) for 0 <= i <= len
list_insert(a, i, x) == SubSeq(a, 1, i) \o <<x>> \o SubSeq(a, i + 1, Len(a))

\* ---------------------------------------------------------------------
\* PointTier
\* ---------------------------------------------------------------------
\* PointTier.add_point; result [tier, raised]
add_point(self, point, overwrite) ==
    LET r1 == Tier_set_start_time(self, Min(self.start_time, point.start_time))
        r2 == Tier_set_end_time(r1.tier, Max(r1.tier.end_time, point.start_time))
        t  == r2.tier
        objs == t.objects
        n  == Len(objs)
        i  == bisect_right(objs, point, "Point")
    IN  IF r1.raised THEN r1
        ELSE IF r2.raised THEN r2
        ELSE IF i < n /\ objs[i + 1].start_time = point.start_time
        THEN [tier |-> IF overwrite
                       THEN [t EXCEPT !.objects[i + 1].text = point.text]
                       ELSE t,
              raised |-> FALSE]
        ELSE IF i > 0 /\ i = n /\ objs[n].start_time = point.start_time
        THEN [tier |-> IF overwrite
                       THEN [t EXCEPT !.objects[n].text = point.text]
                       ELSE t,
              raised |-> FALSE]
        ELSE [tier |-> [t EXCEPT !.objects = list_insert(objs, i, point)],
              raised |-> FALSE]

\* PointTier.add(time, text, overwrite)
PointTier_add(self, time, text, overwrite) ==
    IF Interval_raises(time, time)
    THEN [tier |-> self, raised |-> TRUE]
    ELSE add_point(self, Point(time, text), overwrite)

\* position (1-based) of the first stored element equal to x, 0 if none:
\* the scan of list.remove / list.index with Interval.__eq__
RECURSIVE first_equal(_, _, _)
first_equal(a, x, k) ==
    IF k > Len(a) THEN 0
    ELSE IF Interval_eq(a[k], x) THEN k
    ELSE first_equal(a, x, k + 1)

list_delete(a, k) == SubSeq(a, 1, k - 1) \o SubSeq(a, k + 1, Len(a))

\* list.remove with an equality that also compares the text
list_remove_text_sensitive(a, x) ==
    LET hits == {k \in 1..Len(a) : a[k] = x}
    IN  IF hits = {} THEN [objects |-> a, raised |-> TRUE]
        ELSE [objects |-> list_delete(a, CHOOSE h \in hits : \A g \in hits : h <= g),
              raised |-> FALSE]

\* list.remove(x): deletes the first equal element, ValueError if none
list_remove(a, x) ==
    LET k == first_equal(a, x, 1)
    IN  IF k = 0 THEN [objects |-> a, raised |-> TRUE]
        ELSE [objects |-> list_delete(a, k), raised |-> FALSE]

\* PointTier.remove_point
remove_point(self, point) ==
    LET r == list_remove(self.objects, point)
    IN  [tier |-> [self EXCEPT !.objects = r.objects], raised |-> r.raised]

\* PointTier.remove(time, text)
PointTier_remove(self, time, text) ==
    IF Interval_raises(time, time)
    THEN [tier |-> self, raised |-> TRUE]
    ELSE remove_point(self, Point(time, text))

\* ---------------------------------------------------------------------
\* IntervalTier
\* ---------------------------------------------------------------------
\* IntervalTier.add_interval
add_interval(self, interval, overwrite) ==
    LET r1 == Tier_set_start_time(self, Min(self.start_time, interval.start_time))
        r2 == Tier_set_end_time(r1.tier, Max(r1.tier.end_time, interval.end_time))
        t  == r2.tier
        objs == t.objects
        n  == Len(objs)
        i  == bisect_right(objs, interval, "Interval")
    IN  IF r1.raised THEN r1
        ELSE IF r2.raised THEN r2
        ELSE IF i < n /\ Interval_eq(objs[i + 1], interval)
        THEN [tier |-> IF overwrite
                       THEN [t EXCEPT !.objects[i + 1].text = interval.text]
                       ELSE t,
              raised |-> FALSE]
        ELSE IF i > 0 /\ i = n /\ Interval_eq(objs[n], interval)
        THEN [tier |-> IF overwrite
                       THEN [t EXCEPT !.objects[n].text = interval.text]
                       ELSE t,
              raised |-> FALSE]
        ELSE [tier |-> [t EXCEPT !.objects = list_insert(objs, i, interval)],
              raised |-> FALSE]

\* IntervalTier.add(start_time, end_time, text, overwrite)
IntervalTier_add(self, start_time, end_time, text, overwrite) ==
    IF Interval_raises(start_time, end_time)
    THEN [tier |-> self, raised |-> TRUE]
    ELSE add_interval(self, Interval(start_time, end_time, text), overwrite)

\* IntervalTier.remove_interval
remove_interval(self, interval) ==
    LET r == list_remove(self.objects, interval)
    IN  [tier |-> [self EXCEPT !.objects = r.objects], raised |-> r.raised]

\* IntervalTier.remove(start_time, end_time, text)
IntervalTier_remove(self, start_time, end_time, text) ==
    IF Interval_raises(start_time, end_time)
    THEN [tier |-> self, raised |-> TRUE]
    ELSE remove_interval(self, Interval(start_time, end_time, text))

\* IntervalTier._fill_in_the_gaps: the list that write serialises
RECURSIVE fill_loop(_, _, _, _)
fill_loop(objs, k, prev_t, output) ==
    IF k > Len(objs) THEN output
    ELSE LET interval == objs[k]
             gap == IF prev_t < interval.start_time
                    THEN <<Interval(prev_t, interval.start_time, <<>>)>>
                    ELSE <<>>
         IN  fill_loop(objs, k + 1, interval.end_time, output \o gap \o <<interval>>)

fill_in_the_gaps(self) ==
    LET output == fill_loop(self.objects, 1, self.start_time, <<>>)
    IN  IF Len(output) # 0 /\ output[Len(output)].end_time < self.end_time
        THEN Append(output, Interval(output[Len(output)].end_time, self.end_time, <<>>))
        ELSE output

\* ---------------------------------------------------------------------
\* Praat tier files: a file is the sequence of characters written
\* ---------------------------------------------------------------------
Digits == <<"0", "1", "2", "3", "4", "5", "6", "7", "8", "9">>

\* str(n) of a non-negative int, as the f-strings format len() and i
RECURSIVE str_int(_)
str_int(n) ==
    IF n < 10 THEN <<Digits[n + 1]>>
    ELSE str_int(n \div 10) \o <<Digits[(n % 10) + 1]>>

\* str(x) of a float with an integral value: "1.0", "-2.0"
str_float(x) ==
    IF x < 0 THEN <<"-">> \o str_int(0 - x) \o <<".", "0">>
    ELSE str_int(x) \o <<".", "0">>

IsDigit(c) == \E d \in 1..10 : Digits[d] = c
DigitValue(c) == (CHOOSE d \in 1..10 : Digits[d] = c) - 1

RECURSIVE digits_value(_, _)
digits_value(s, acc) ==
    IF s = <<>> THEN acc
    ELSE digits_value(Tail(s), acc * 10 + DigitValue(Head(s)))

AllDigits(s) == \A k \in 1..Len(s) : IsDigit(s[k])
AllZeros(s) == \A k \in 1..Len(s) : s[k] = "0"

\* int(s): one or more digits, anything else raises ValueError
py_int(s) ==
    IF s # <<>> /\ AllDigits(s)
    THEN [value |-> digits_value(s, 0), raised |-> FALSE]
    ELSE [value |-> 0, raised |-> TRUE]

\* float(s) on the numerals the writers produce: an optional sign, digits
\* and an optional fraction of zeros; anything else raises ValueError
py_float(s) ==
    LET neg  == s # <<>> /\ Head(s) = "-"
        body == IF neg THEN Tail(s) ELSE s
        dots == {k \in 1..Len(body) : body[k] = "."}
        ip   == IF dots = {} THEN body
                ELSE SubSeq(body, 1, (CHOOSE k \in dots : TRUE) - 1)
        fp   == IF dots = {} THEN <<>>
                ELSE SubSeq(body, (CHOOSE k \in dots : TRUE) + 1, Len(body))
    IN  IF Cardinality(dots) <= 1 /\ ip # <<>> /\ AllDigits(ip) /\ AllZeros(fp)
        THEN [value |-> IF neg THEN 0 - digits_value(ip, 0) ELSE digits_value(ip, 0),
              raised |-> FALSE]
        ELSE [value |-> 0, raised |-> TRUE]

\* source.readline() from position pos (1-based): the characters up to and
\* including the next newline, or the rest of the file
RECURSIVE line_end(_, _)
line_end(f, k) ==
    IF k >= Len(f) \/ f[k] = "\n" THEN Min(k, Len(f)) ELSE line_end(f, k + 1)

readline(f, pos) ==
    LET stop == line_end(f, pos)
    IN  [line |-> SubSeq(f, pos, stop), next |-> stop + 1]

RECURSIVE skip_lines(_, _, _)
skip_lines(f, pos, n) ==
    IF n = 0 THEN pos ELSE skip_lines(f, readline(f, pos).next, n - 1)

\* The literal text of the file formats: the strings that the write methods
\* emit and the read methods split on, each a sequence of characters
Literal ==
    [
     IntervalTier_header |->
        <<"F", "i", "l", "e", " ", "t", "y", "p", "e", " ", "=", " ", "\"", "o",
        "o", "T", "e", "x", "t", "F", "i", "l", "e", "\"", "\n">>
        \o <<"O", "b", "j", "e", "c", "t", " ", "c", "l", "a", "s", "s", " ", "=",
        " ", "\"", "I", "n", "t", "e", "r", "v", "a", "l", "T", "i", "e",
        "r", "\"", "\n", "\n">>,
     Xmin_eq |->
        <<"x", "m", "i", "n", " ", "=", " ">>,
     Xmax_eq |->
        <<"x", "m", "a", "x", " ", "=", " ">>,
     Intervals_size_eq |->
        <<"i", "n", "t", "e", "r", "v", "a", "l", "s", ":", " ", "s", "i", "z",
        "e", " ", "=", " ">>,
     Intervals_open |->
        <<"i", "n", "t", "e", "r", "v", "a", "l", "s", " ", "[">>,
     Tab_xmin_eq |->
        <<"\t", "x", "m", "i", "n", " ", "=", " ">>,
     Tab_xmax_eq |->
        <<"\t", "x", "m", "a", "x", " ", "=", " ">>,
     Tab_text_eq |->
        <<"\t", "t", "e", "x", "t", " ", "=", " ">>,
     Block_close |->
        <<"]", ":", "\n">>,
     PointTier_header |->
        <<"F", "i", "l", "e", " ", "t", "y", "p", "e", " ", "=", " ", "\"", "o",
        "o", "T", "e", "x", "t", "F", "i", "l", "e", "\"", "\n">>
        \o <<"O", "b", "j", "e", "c", "t", " ", "c", "l", "a", "s", "s", " ", "=",
        " ", "\"", "T", "e", "x", "t", "T", "i", "e", "r", "\"", "\n", "\n">>
        \o <<"O", "b", "j", "e", "c", "t", " ", "c", "l", "a", "s", "s", " ", "=",
        " ", "\"", "T", "e", "x", "t", "T", "i", "e", "r", "\"", "\n", "\n">>,
     Points_size_eq |->
        <<"p", "o", "i", "n", "t", "s", ":", " ", "s", "i", "z", "e", " ", "=",
        " ">>,
     Points_open |->
        <<"p", "o", "i", "n", "t", "s", " ", "[">>,
     Tab_time_eq |->
        <<"\t", "t", "i", "m", "e", " ", "=", " ">>,
     TextGrid_header |->
        <<"F", "i", "l", "e", " ", "t", "y", "p", "e", " ", "=", " ", "\"",
        "o", "o", "T", "e", "x", "t", "F", "i", "l", "e", "\"", "\n">>
        \o
        <<"O", "b", "j", "e", "c", "t", " ", "c", "l", "a", "s", "s", " ", "=",
        " ", "\"", "T", "e", "x", "t", "G", "r", "i", "d", "\"", "\n", "\n">>,
     Tiers_exists |->
        <<"t", "i", "e", "r", "s", "?", " ", "<", "e", "x", "i", "s", "t", "s",
        ">", "\n">>,
     Size_eq |->
        <<"s", "i", "z", "e", " ", "=", " ">>,
     Item_list |->
        <<"i", "t", "e", "m", " ", "[", "]", ":", "\n">>,
     Item_open |->
        <<"\t", "i", "t", "e", "m", " ", "[">>,
     Class_IntervalTier |->
        <<"\t", "\t", "c", "l", "a", "s", "s", " ", "=", " ", "\"", "I", "n",
        "t", "e", "r", "v", "a", "l", "T", "i", "e", "r", "\"", "\n">>,
     Class_TextTier |->
        <<"\t", "\t", "c", "l", "a", "s", "s", " ", "=", " ", "\"", "T", "e",
        "x", "t", "T", "i", "e", "r", "\"", "\n">>,
     Name_eq |->
        <<"\t", "\t", "n", "a", "m", "e", " ", "=", " ">>,
     Tabs2 |->
        <<"\t", "\t">>,
     Tabs3 |->
        <<"\t", "\t", "\t">>,
     Quote |->
        <<"\"">>,
     IntervalTier_chars |->
        <<"I", "n", "t", "e", "r", "v", "a", "l", "T", "i", "e", "r">>,
     Seg_parameters |->
        <<"[", "P", "A", "R", "A", "M", "E", "T", "E", "R", "S", "]", "\n">>,
     Seg_sampling_freq |->
        <<"S", "A", "M", "P", "L", "I", "N", "G", "_", "F", "R", "E", "Q", "=">>,
     Seg_byte_per_sample |->
        <<"B", "Y", "T", "E", "_", "P", "E", "R", "_", "S", "A", "M", "P", "L",
        "E", "=">>,
     Seg_code_channel |->
        <<"C", "O", "D", "E", "=", "0", "\n">>
        \o
        <<"N", "_", "C", "H", "A", "N", "N", "E", "L", "=", "1", "\n">>,
     Seg_n_label |->
        <<"N", "_", "L", "A", "B", "E", "L", "=">>,
     Seg_labels |->
        <<"[", "L", "A", "B", "E", "L", "S", "]", "\n">>,
     Sep |->
        <<" ", "=", " ">>]

\* line.split(' = ')[-1]: the scan is left to right over non-overlapping
\* occurrences; from is where the last piece starts
RECURSIVE split_last(_, _, _)
split_last(line, k, from) ==
    IF k + 2 > Len(line) THEN SubSeq(line, from, Len(line))
    ELSE IF SubSeq(line, k, k + 2) = Literal.Sep THEN split_last(line, k + 3, k + 3)
    ELSE split_last(line, k + 1, from)

IsSpace(c) == c \in {" ", "\t", "\n"}

\* str.strip(): whitespace is removed at both ends
RECURSIVE lstrip(_)
lstrip(s) == IF s # <<>> /\ IsSpace(Head(s)) THEN lstrip(Tail(s)) ELSE s

RECURSIVE rstrip(_)
rstrip(s) ==
    IF s # <<>> /\ IsSpace(s[Len(s)]) THEN rstrip(SubSeq(s, 1, Len(s) - 1)) ELSE s

strip(s) == rstrip(lstrip(s))

\* str.strip('"')
RECURSIVE lstrip_quote(_)
lstrip_quote(s) == IF s # <<>> /\ Head(s) = "\"" THEN lstrip_quote(Tail(s)) ELSE s

RECURSIVE rstrip_quote(_)
rstrip_quote(s) ==
    IF s # <<>> /\ s[Len(s)] = "\""
    THEN rstrip_quote(SubSeq(s, 1, Len(s) - 1)) ELSE s

strip_quote(s) == rstrip_quote(lstrip_quote(s))

\* line.split(' = ')[-1].strip()
number_field(line) == strip(split_last(line, 1, 1))

\* line.split(' = ')[-1].strip().strip('"')
text_field(line) == strip_quote(strip(split_last(line, 1, 1)))

\* IntervalTier.write: the intervals, one block each
RECURSIVE write_intervals(_, _)
write_intervals(output, i) ==
    IF i > Len(output) THEN <<>>
    ELSE Literal.Intervals_open \o str_int(i) \o Literal.Block_close
         \o Literal.Tab_xmin_eq \o str_float(output[i].start_time) \o <<"\n">>
         \o Literal.Tab_xmax_eq \o str_float(output[i].end_time) \o <<"\n">>
         \o Literal.Tab_text_eq \o output[i].text \o <<"\n">>
         \o write_intervals(output, i + 1)

IntervalTier_write(self) ==
    LET output == fill_in_the_gaps(self)
    IN  Literal.IntervalTier_header
        \o Literal.Xmin_eq \o str_float(self.start_time) \o <<"\n">>
        \o Literal.Xmax_eq \o str_float(self.end_time) \o <<"\n">>
        \o Literal.Intervals_size_eq \o str_int(Len(output)) \o <<"\n">>
        \o write_intervals(output, 1)

\* the loop of IntervalTier.read: n blocks of four lines, each added
RECURSIVE read_intervals(_, _, _, _)
read_intervals(self, f, pos, n) ==
    IF n = 0 THEN [tier |-> self, raised |-> FALSE]
    ELSE LET l1 == readline(f, pos)
             l2 == readline(f, l1.next)
             l3 == readline(f, l2.next)
             l4 == readline(f, l3.next)
             start_time == py_float(number_field(l2.line))
             end_time == py_float(number_field(l3.line))
             text == text_field(l4.line)
             r == IntervalTier_add(self, start_time.value, end_time.value, text, FALSE)
         IN  IF start_time.raised \/ end_time.raised
             THEN [tier |-> self, raised |-> TRUE]
             ELSE IF r.raised THEN r
             ELSE read_intervals(r.tier, f, l4.next, n - 1)

\* IntervalTier.read
IntervalTier_read(self, f) ==
    LET l4 == readline(f, skip_lines(f, 1, 3))
        l5 == readline(f, l4.next)
        l6 == readline(f, l5.next)
        xmin == py_float(number_field(l4.line))
        r1 == Tier_set_start_time(self, xmin.value)
        xmax == py_float(number_field(l5.line))
        r2 == Tier_set_end_time(r1.tier, xmax.value)
        tier_size == py_int(number_field(l6.line))
    IN  IF xmin.raised THEN [tier |-> self, raised |-> TRUE]
        ELSE IF r1.raised THEN r1
        ELSE IF xmax.raised THEN [tier |-> r1.tier, raised |-> TRUE]
        ELSE IF r2.raised THEN r2
        ELSE IF tier_size.raised THEN [tier |-> r2.tier, raised |-> TRUE]
        ELSE read_intervals(r2.tier, f, l6.next, tier_size.value)

\* IntervalTier.from_file
IntervalTier_from_file(f) == IntervalTier_read(Tier(0, 0), f)

\* PointTier.write (object_class left at its default "TextTier"): the
\* points, one block each
RECURSIVE write_points(_, _)
write_points(objs, i) ==
    IF i > Len(objs) THEN <<>>
    ELSE Literal.Points_open \o str_int(i) \o Literal.Block_close
         \o Literal.Tab_time_eq \o str_float(objs[i].start_time) \o <<"\n">>
         \o Literal.Tab_text_eq \o objs[i].text \o <<"\n">>
         \o write_points(objs, i + 1)

PointTier_write(self) ==
    Literal.PointTier_header
    \o Literal.Xmin_eq \o str_float(self.start_time) \o <<"\n">>
    \o Literal.Xmax_eq \o str_float(self.end_time) \o <<"\n">>
    \o Literal.Points_size_eq \o str_int(Len(self.objects)) \o <<"\n">>
    \o write_points(self.objects, 1)

\* the loop of PointTier.read: n blocks of three lines, each added
RECURSIVE read_points(_, _, _, _)
read_points(self, f, pos, n) ==
    IF n = 0 THEN [tier |-> self, raised |-> FALSE]
    ELSE LET l1 == readline(f, pos)
             l2 == readline(f, l1.next)
             l3 == readline(f, l2.next)
             time == py_float(number_field(l2.line))
             text == text_field(l3.line)
             r == PointTier_add(self, time.value, text, FALSE)
         IN  IF time.raised THEN [tier |-> self, raised |-> TRUE]
             ELSE IF r.raised THEN r
             ELSE read_points(r.tier, f, l3.next, n - 1)

\* PointTier.read
PointTier_read(self, f) ==
    LET l4 == readline(f, skip_lines(f, 1, 3))
        l5 == readline(f, l4.next)
        l6 == readline(f, l5.next)
        xmin == py_float(number_field(l4.line))
        r1 == Tier_set_start_time(self, xmin.value)
        xmax == py_float(number_field(l5.line))
        r2 == Tier_set_end_time(r1.tier, xmax.value)
        tier_size == py_int(number_field(l6.line))
    IN  IF xmin.raised THEN [tier |-> self, raised |-> TRUE]
        ELSE IF r1.raised THEN r1
        ELSE IF xmax.raised THEN [tier |-> r1.tier, raised |-> TRUE]
        ELSE IF r2.raised THEN r2
        ELSE IF tier_size.raised THEN [tier |-> r2.tier, raised |-> TRUE]
        ELSE read_points(r2.tier, f, l6.next, tier_size.value)

\* PointTier.from_file
PointTier_from_file(f) == PointTier_read(Tier(0, 0), f)

\* ---------------------------------------------------------------------
\* Specification Spec: one tier, changed only by add and remove
\* ---------------------------------------------------------------------
\* What each history variable and each container holds before the first
\* call that sets it
Unset ==
    [
     NoItem |-> [start_time |-> 0, end_time |-> 0, text |-> <<>>],
     NoOrder |-> <<<<>>, <<>>>>,
     NoBuilt |-> <<Tier(0, 0), Tier(0, 0)>>,
     NoLoad |-> [tier |-> Tier(0, 0), raised |-> FALSE],
     NoPrim |-> [op |-> "init", arg |-> 0, raised |-> FALSE, pre |-> NoValue],
     NoStored |-> [tiers |-> <<>>, grid |-> <<>>],
     NoAlias |-> [op |-> "init", pre |-> [tiers |-> <<>>, grid |-> <<>>]],
     NoGridOp |-> [op |-> "init", name |-> "", raised |-> FALSE, pre |-> <<>>],
     NoRet |-> [op |-> "init"]]

Call(op, item, overwrite, raised, pre) ==
    [op |-> op, item |-> item, overwrite |-> overwrite, raised |-> raised, pre |-> pre]

Init ==
    /\ ret = Unset.NoRet
    /\ kind \in {"PointTier", "IntervalTier"}
    /\ \E s, e \in Times : tier = Tier(s, e)
    /\ last = Call("init", Unset.NoItem, FALSE, FALSE, tier)
    /\ pending = Unset.NoOrder
    /\ built = Unset.NoBuilt
    /\ pc = "idle"
    /\ file = <<>>
    /\ loaded = Unset.NoLoad
    /\ elems = <<>>
    /\ tiers = <<>>
    /\ grid = Tier(0, 0)
    /\ held = {}
    /\ alias = Unset.NoAlias
    /\ tg = Tier(0, 0)
    /\ tgop = Unset.NoGridOp
    /\ value = NoValue
    /\ prim = Unset.NoPrim

Next ==
    \* PointTier.add(time, text, overwrite)
    \/ /\ kind = "PointTier"
       /\ \E time \in Times, text \in Texts, overwrite \in BOOLEAN :
            LET r == PointTier_add(tier, time, text, overwrite)
            IN  /\ Len(r.tier.objects) <= MaxLen
                /\ tier' = r.tier
                /\ last' = Call("add", Point(time, text), overwrite, r.raised, tier)
       /\ UNCHANGED <<kind, orderVars, praatVars, primVars, aliasVars, gridVars, ret>>
    \* PointTier.remove(time, text)
    \/ /\ kind = "PointTier"
       /\ \E time \in Times, text \in Texts :
            LET r == PointTier_remove(tier, time, text)
            IN  /\ tier' = r.tier
                /\ last' = Call("remove", Point(time, text), FALSE, r.raised, tier)
       /\ UNCHANGED <<kind, orderVars, praatVars, primVars, aliasVars, gridVars, ret>>
    \* IntervalTier.add(start_time, end_time, text, overwrite)
    \/ /\ kind = "IntervalTier"
       /\ \E s, e \in Times, text \in Texts, overwrite \in BOOLEAN :
            LET r == IntervalTier_add(tier, s, e, text, overwrite)
            IN  /\ Len(r.tier.objects) <= MaxLen
                /\ tier' = r.tier
                /\ last' = Call("add", Interval(s, e, text), overwrite, r.raised, tier)
       /\ UNCHANGED <<kind, orderVars, praatVars, primVars, aliasVars, gridVars, ret>>
    \* IntervalTier.remove(start_time, end_time, text)
    \/ /\ kind = "IntervalTier"
       /\ \E s, e \in Times, text \in Texts :
            LET r == IntervalTier_remove(tier, s, e, text)
            IN  /\ tier' = r.tier
                /\ last' = Call("remove", Interval(s, e, text), FALSE, r.raised, tier)
       /\ UNCHANGED <<kind, orderVars, praatVars, primVars, aliasVars, gridVars, ret>>

vars == <<kind, tier, last, pending, built, pc, file, loaded, value, prim,
          elems, tiers, grid, held, alias, tg, tgop, ret>>

Spec == Init /\ [][Next]_vars

\* ---------------------------------------------------------------------
\* Properties of Spec
\* ---------------------------------------------------------------------
Positions(a) == 1..Len(a)

\* C1: no two stored elements of a tier have equal time/bounds, whatever
\* adds (with any overwrite flag, in any order) produced the tier.
C1_NoDuplicateBounds ==
    \A i, j \in Positions(tier.objects) :
        i < j => ~Interval_eq(tier.objects[i], tier.objects[j])

\* C3: the stored sequence is sorted: in a PointTier the times are
\* non-decreasing by position; in an IntervalTier no element at a later
\* position lies entirely before an element at an earlier position unless
\* the two have the same bounds.
C3_Sorted ==
    \A i, j \in Positions(tier.objects) :
        i < j =>
            IF kind = "PointTier"
            THEN tier.objects[i].start_time <= tier.objects[j].start_time
            ELSE ~(/\ tier.objects[j].end_time <= tier.objects[i].start_time
                   /\ ~Interval_eq(tier.objects[i], tier.objects[j]))

\* C4: an add whose time/bounds already occur in the tier, at whatever
\* position k: with overwrite=false the element at k is left as it was,
\* with overwrite=true the element at k takes the new text and no element
\* is inserted.
C4_ReAddUpdatesInPlace ==
    (last.op = "add" /\ ~last.raised) =>
        \A k \in Positions(last.pre.objects) :
            Interval_eq(last.pre.objects[k], last.item) =>
                IF last.overwrite
                THEN /\ Len(tier.objects) = Len(last.pre.objects)
                     /\ tier.objects[k].text = last.item.text
                ELSE tier.objects[k] = last.pre.objects[k]

\* C5: remove deletes exactly the first stored element whose bounds equal
\* the probe's bounds (whatever the probe's text) and the length drops by
\* one; when no element has those bounds the call raises and the tier
\* (elements, start_time, end_time) is as before.
C5_RemoveFirstOrNotFound ==
    (last.op = "remove") =>
        LET pre == last.pre.objects
            hits == {k \in Positions(pre) : Interval_eq(pre[k], last.item)}
        IN  IF hits = {}
            THEN last.raised /\ tier = last.pre
            ELSE LET k == CHOOSE h \in hits : \A g \in hits : h <= g
                 IN  /\ ~last.raised
                     /\ Len(tier.objects) = Len(pre) - 1
                     /\ \A p \in Positions(tier.objects) :
                           tier.objects[p] = IF p < k THEN pre[p] ELSE pre[p + 1]
                     /\ tier.start_time = last.pre.start_time
                     /\ tier.end_time = last.pre.end_time

\* a successful remove from a tier holding two elements with the probe's
\* bounds and different texts
C5_Witness ==
    /\ last.op = "remove"
    /\ ~last.raised
    /\ \E i, j \in Positions(last.pre.objects) :
          /\ i < j
          /\ Interval_eq(last.pre.objects[i], last.item)
          /\ Interval_eq(last.pre.objects[j], last.item)
          /\ last.pre.objects[i].text # last.pre.objects[j].text

\* ---------------------------------------------------------------------
\* Specification SpecOrder: the same elements, pairwise distinct in
\* time/bounds, are added to two empty tiers in two orders
\* ---------------------------------------------------------------------

InitOrder ==
    LET ElementsOf(k) ==
        IF k = "PointTier"
        THEN {Point(t, x) : t \in Times, x \in Texts}
        ELSE {Interval(s, e, x) : s \in Times, e \in Times, x \in Texts}
    IN  LET DistinctBounds(p) ==
            \A i, j \in Positions(p) : i # j => ~Interval_eq(p[i], p[j])
        IN  /\ ret = Unset.NoRet
            /\ kind \in {"PointTier", "IntervalTier"}
            /\ \E n \in 0..MaxLen :
                 \E p \in [1..n -> ElementsOf(kind)] :
                   /\ DistinctBounds(p)
                   /\ \E sigma \in Permutations(1..n) :
                        pending = <<p, [i \in 1..n |-> p[sigma[i]]]>>
            /\ built = Unset.NoBuilt
            /\ tier = Tier(0, 0)
            /\ last = Call("init", Unset.NoItem, FALSE, FALSE, tier)
            /\ pc = "idle"
            /\ file = <<>>
            /\ loaded = Unset.NoLoad
            /\ elems = <<>>
            /\ tiers = <<>>
            /\ grid = Tier(0, 0)
            /\ held = {}
            /\ alias = Unset.NoAlias
            /\ tg = Tier(0, 0)
            /\ tgop = Unset.NoGridOp
            /\ value = NoValue
            /\ prim = Unset.NoPrim

NextOrder ==
    \* the next element of each order is added to its tier (add_point)
    \/ /\ kind = "PointTier"
       /\ pending[1] # <<>>
       /\ built' = <<add_point(built[1], Head(pending[1]), FALSE).tier,
                     add_point(built[2], Head(pending[2]), FALSE).tier>>
       /\ pending' = <<Tail(pending[1]), Tail(pending[2])>>
       /\ UNCHANGED <<tierVars, praatVars, primVars, aliasVars, gridVars, ret>>
    \* the next element of each order is added to its tier (add_interval)
    \/ /\ kind = "IntervalTier"
       /\ pending[1] # <<>>
       /\ built' = <<add_interval(built[1], Head(pending[1]), FALSE).tier,
                     add_interval(built[2], Head(pending[2]), FALSE).tier>>
       /\ pending' = <<Tail(pending[1]), Tail(pending[2])>>
       /\ UNCHANGED <<tierVars, praatVars, primVars, aliasVars, gridVars, ret>>

SpecOrder == InitOrder /\ [][NextOrder]_vars

\* C2: once both orders have been applied in full, the two tiers store the
\* same elements at the same positions.
C2_OrderIndependent ==
    (pending[1] = <<>> /\ pending[2] = <<>>) =>
        built[1].objects = built[2].objects

\* ---------------------------------------------------------------------
\* Specification SpecPraat: a tier is built, written to a Praat tier file
\* and the file is loaded into a fresh tier with from_file
\* ---------------------------------------------------------------------
TextChars == {"a", " ", "\"", "="}

PraatTexts == UNION {[1..n -> TextChars] : n \in 0..MaxTextLen}

InitPraat ==
    /\ ret = Unset.NoRet
    /\ kind \in {"PointTier", "IntervalTier"}
    /\ \E s, e \in Times : tier = Tier(s, e)
    /\ last = Call("init", Unset.NoItem, FALSE, FALSE, tier)
    /\ pending = Unset.NoOrder
    /\ built = Unset.NoBuilt
    /\ pc = "build"
    /\ file = <<>>
    /\ loaded = Unset.NoLoad
    /\ elems = <<>>
    /\ tiers = <<>>
    /\ grid = Tier(0, 0)
    /\ held = {}
    /\ alias = Unset.NoAlias
    /\ tg = Tier(0, 0)
    /\ tgop = Unset.NoGridOp
    /\ value = NoValue
    /\ prim = Unset.NoPrim

NextPraat ==
    \* PointTier.add(time, text)
    \/ /\ pc = "build"
       /\ kind = "PointTier"
       /\ \E time \in Times, text \in PraatTexts :
            LET r == PointTier_add(tier, time, text, FALSE)
            IN  /\ Len(r.tier.objects) <= MaxWritten
                /\ tier' = r.tier
       /\ UNCHANGED <<kind, last, orderVars, praatVars, primVars, aliasVars, gridVars, ret>>
    \* IntervalTier.add(start_time, end_time, text)
    \/ /\ pc = "build"
       /\ kind = "IntervalTier"
       /\ \E s, e \in Times, text \in PraatTexts :
            LET r == IntervalTier_add(tier, s, e, text, FALSE)
            IN  /\ Len(r.tier.objects) <= MaxWritten
                /\ tier' = r.tier
       /\ UNCHANGED <<kind, last, orderVars, praatVars, primVars, aliasVars, gridVars, ret>>
    \* PointTier.write(file)
    \/ /\ pc = "build"
       /\ kind = "PointTier"
       /\ file' = PointTier_write(tier)
       /\ pc' = "written"
       /\ UNCHANGED <<tierVars, orderVars, loaded, primVars, aliasVars, gridVars, ret>>
    \* IntervalTier.write(file)
    \/ /\ pc = "build"
       /\ kind = "IntervalTier"
       /\ file' = IntervalTier_write(tier)
       /\ pc' = "written"
       /\ UNCHANGED <<tierVars, orderVars, loaded, primVars, aliasVars, gridVars, ret>>
    \* PointTier.from_file(file)
    \/ /\ pc = "written"
       /\ kind = "PointTier"
       /\ loaded' = PointTier_from_file(file)
       /\ pc' = "read"
       /\ UNCHANGED <<tierVars, orderVars, file, primVars, aliasVars, gridVars, ret>>
    \* IntervalTier.from_file(file)
    \/ /\ pc = "written"
       /\ kind = "IntervalTier"
       /\ loaded' = IntervalTier_from_file(file)
       /\ pc' = "read"
       /\ UNCHANGED <<tierVars, orderVars, file, primVars, aliasVars, gridVars, ret>>

SpecPraat == InitPraat /\ [][NextPraat]_vars

\* C6: an IntervalTier with pairwise non-overlapping intervals and any
\* bounds, written and loaded with from_file: the load succeeds, the
\* loaded bounds are the written ones and the loaded elements are the
\* gap-filled list that was written.
C6_IntervalTierRoundTrip ==
    LET NonOverlapping(objs) ==
        \A i, j \in Positions(objs) : i # j => ~overlaps(objs[i], objs[j])
    IN  (pc = "read" /\ kind = "IntervalTier" /\ NonOverlapping(tier.objects)) =>
            /\ ~loaded.raised
            /\ loaded.tier.start_time = tier.start_time
            /\ loaded.tier.end_time = tier.end_time
            /\ loaded.tier.objects = fill_in_the_gaps(tier)

\* C7: a PointTier written and loaded with from_file: the load succeeds
\* and yields the same points (count, times, texts, order) and bounds.
C7_PointTierRoundTrip ==
    (pc = "read" /\ kind = "PointTier") =>
        /\ ~loaded.raised
        /\ loaded.tier = tier

\* ---------------------------------------------------------------------
\* Specification SpecPrim: one Interval or Point, constructed and then
\* changed through its setters and in-place operations
\* ---------------------------------------------------------------------
MaxCat == 2                        \* characters of a concatenated text
Scalars == (0 - MaxTime)..MaxTime  \* arguments: times and shifts, either sign
PrimTexts == {<<>>, <<"a">>}
Operands == {new_Interval(s, e, x).value : s \in Times, e \in Times, x \in PrimTexts}

\* a call that assigns value; results stay within the explored range
Done(op, arg, r) ==
    /\ r.value.start_time \in (0 - 2 * MaxTime)..(2 * MaxTime)
    /\ r.value.end_time \in (0 - 2 * MaxTime)..(2 * MaxTime)
    /\ Len(r.value.text) <= MaxCat
    /\ value' = r.value
    /\ prim' = [op |-> op, arg |-> arg, raised |-> r.raised, pre |-> value]
    /\ ret' = Unset.NoRet
    /\ UNCHANGED <<tierVars, orderVars, praatVars, aliasVars, gridVars>>

\* a call on value that returns a result and leaves value as it is
Query(op, other, result) ==
    /\ prim' = [op |-> op, arg |-> 0, raised |-> FALSE, pre |-> value]
    /\ ret' = [op |-> op, self |-> value, other |-> other, result |-> result]
    /\ UNCHANGED <<value, tierVars, orderVars, praatVars, aliasVars, gridVars>>

\* the right-hand sides of comparisons: Intervals and Points
Ranged ==
    Operands \cup {new_Point(t, x).value : t \in Times, x \in PrimTexts}

InitPrim ==
    /\ ret = Unset.NoRet
    /\ \E s, e \in Times, x \in PrimTexts :
         value \in {new_Interval(s, e, x).value, new_Point(s, x).value}
    /\ prim = [op |-> "init", arg |-> 0, raised |-> FALSE, pre |-> value]
    /\ kind = "IntervalTier"
    /\ tier = Tier(0, 0)
    /\ last = Call("init", Unset.NoItem, FALSE, FALSE, tier)
    /\ pending = Unset.NoOrder
    /\ built = Unset.NoBuilt
    /\ pc = "idle"
    /\ file = <<>>
    /\ loaded = Unset.NoLoad
    /\ elems = <<>>
    /\ tiers = <<>>
    /\ grid = Tier(0, 0)
    /\ held = {}
    /\ alias = Unset.NoAlias
    /\ tg = Tier(0, 0)
    /\ tgop = Unset.NoGridOp

\* One disjunct per operation on value
NextPrim ==
    \* x = Interval(s, e, text) / x = Point(t, text); a raising constructor
    \* leaves the previous object in place
    \/ \E s, e \in Scalars, x \in PrimTexts, c \in {"Interval", "Point"} :
         LET r == IF c = "Interval" THEN new_Interval(s, e, x) ELSE new_Point(s, x)
         IN  Done("construct", 0,
                  IF r.raised THEN [value |-> value, raised |-> TRUE] ELSE r)
    \* value.start_time = v
    \/ \E v \in Scalars : Done("start_time", v, set_start_time(value, v))
    \* value.end_time = v
    \/ \E v \in Scalars : Done("end_time", v, set_end_time(value, v))
    \* value.time = v
    \/ /\ value.cls = "Point"
       /\ \E v \in Scalars : Done("time", v, set_time(value, v))
    \* value += k
    \/ \E k \in Scalars : Done("iadd", k, iadd_scalar(value, k))
    \* value += other
    \/ \E o \in Operands : Done("iadd_ranged", 0, iadd_ranged(value, o))
    \* value -= k
    \/ \E k \in Scalars : Done("isub", k, isub_scalar(value, k))
    \* value.concatenate(other, delimiter)
    \/ \E o \in Operands, d \in PrimTexts :
         Done("concatenate", 0, concatenate(value, o, d))
    \* value < other
    \/ \E o \in Ranged : Query("lt", o, lt(value, o))
    \* value > other
    \/ \E o \in Ranged : Query("gt", o, gt(value, o))
    \* value.overlaps(other)
    \/ \E o \in Operands : Query("overlaps", o, overlaps(value, o))
    \* value + k
    \/ \E k \in Scalars : Query("add", k, add_scalar(value, k))
    \* value - k
    \/ \E k \in Scalars : Query("sub", k, sub_scalar(value, k))

SpecPrim == InitPrim /\ [][NextPrim]_vars

\* C13 as stated: for two ranged values, each an Interval or a Point,
\* a < b iff a.end_time <= b.start_time and a > b iff
\* b.end_time <= a.start_time.
C13_Ordering ==
    LET WellFormed(v) == v.cls = "Point" => v.start_time = v.end_time
    IN  /\ (ret.op = "lt" /\ WellFormed(ret.self))
             => (ret.result <=> ret.self.end_time <= ret.other.start_time)
        /\ (ret.op = "gt" /\ WellFormed(ret.self))
             => (ret.result <=> ret.other.end_time <= ret.self.start_time)

\* C13 amended: between two Intervals a < b iff a.end_time <= b.start_time
\* and a > b iff b.end_time <= a.start_time; when a or b is a Point (both
\* bounds equal to its time) the comparison is strict, a < b iff
\* a.end_time < b.start_time and a > b iff b.end_time < a.start_time.
C13_OrderingStrictForPoints ==
    LET WellFormed(v) == v.cls = "Point" => v.start_time = v.end_time
    IN  LET IsInterval(v) == v.cls = "Interval"
        IN  /\ (ret.op = "lt" /\ WellFormed(ret.self))
                 => (ret.result <=>
                       IF IsInterval(ret.self) /\ IsInterval(ret.other)
                       THEN ret.self.end_time <= ret.other.start_time
                       ELSE ret.self.end_time < ret.other.start_time)
            /\ (ret.op = "gt" /\ WellFormed(ret.self))
                 => (ret.result <=>
                       IF IsInterval(ret.self) /\ IsInterval(ret.other)
                       THEN ret.other.end_time <= ret.self.start_time
                       ELSE ret.other.end_time < ret.self.start_time)

\* a Point was compared with a Point of the same time
C13_Witness ==
    /\ ret.op = "lt"
    /\ ret.self.cls = "Point"
    /\ ret.other.cls = "Point"
    /\ ret.self.start_time = ret.self.end_time
    /\ ret.self.start_time = ret.other.start_time
    /\ ~ret.result

\* C14 as stated: a zero-duration Interval never overlaps anything, in
\* either direction, and a.overlaps(a) is true only if a.duration() > 0.
C14_ZeroDurationNeverOverlaps ==
    LET ZeroDuration(v) == v.start_time = v.end_time
    IN  LET IsInterval(v) == v.cls = "Interval"
        IN  (ret.op = "overlaps" /\ IsInterval(ret.self))
            => /\ (ZeroDuration(ret.self) \/ ZeroDuration(ret.other)) => ~ret.result
               /\ (Interval_eq(ret.self, ret.other) /\ ret.result)
                    => ret.self.end_time - ret.self.start_time > 0

\* C14 amended: a zero-duration Interval z overlaps an Interval b, and b
\* overlaps z, exactly when z lies strictly inside b
\* (b.start_time < z.start_time < b.end_time); so it overlaps neither
\* itself, nor another zero-duration Interval, nor an Interval that it only
\* touches; and a.overlaps(a) is true only if a.duration() > 0.
C14_ZeroDurationOverlapsInside ==
    LET ZeroDuration(v) == v.start_time = v.end_time
    IN  LET IsInterval(v) == v.cls = "Interval"
        IN  (ret.op = "overlaps" /\ IsInterval(ret.self))
            => /\ ZeroDuration(ret.self)
                    => (ret.result <=> /\ ret.other.start_time < ret.self.start_time
                                       /\ ret.self.start_time < ret.other.end_time)
               /\ ZeroDuration(ret.other)
                    => (ret.result <=> /\ ret.self.start_time < ret.other.start_time
                                       /\ ret.other.start_time < ret.self.end_time)
               /\ (Interval_eq(ret.self, ret.other) /\ ret.result)
                    => ret.self.end_time - ret.self.start_time > 0

\* a zero-duration Interval was tested against an Interval around it
C14_Witness ==
    LET ZeroDuration(v) == v.start_time = v.end_time
    IN  LET IsInterval(v) == v.cls = "Interval"
        IN  /\ ret.op = "overlaps"
            /\ IsInterval(ret.self)
            /\ ZeroDuration(ret.self)
            /\ ret.other.start_time < ret.self.start_time
            /\ ret.self.start_time < ret.other.end_time
            /\ ret.result

\* C15: for an Interval or Point x with valid bounds and a scalar k of
\* either sign that keeps the shifted bounds non-negative, x += k and
\* x -= k succeed and leave x with both bounds shifted by +k and -k and the
\* same text; x + k and x - k return a value with the shifted bounds and
\* the same text.
C15_ShiftByScalar ==
    LET Shifted(v, d) == [v EXCEPT !.start_time = @ + d, !.end_time = @ + d]
    IN  LET ValidBounds(v) == 0 <= v.start_time /\ v.start_time <= v.end_time
        IN  /\ (/\ prim.op \in {"iadd", "isub"}
                /\ ValidBounds(prim.pre)
                /\ ValidBounds(Shifted(prim.pre, IF prim.op = "iadd" THEN prim.arg
                                                 ELSE 0 - prim.arg)))
                 => /\ ~prim.raised
                    /\ value = Shifted(prim.pre, IF prim.op = "iadd" THEN prim.arg
                                                 ELSE 0 - prim.arg)
            /\ (/\ ret.op \in {"add", "sub"}
                /\ ValidBounds(ret.self)
                /\ ValidBounds(Shifted(ret.self, IF ret.op = "add" THEN ret.other
                                                 ELSE 0 - ret.other)))
                 => /\ ~ret.result.raised
                    /\ ret.result.value.start_time
                         = ret.self.start_time + (IF ret.op = "add" THEN ret.other
                                                  ELSE 0 - ret.other)
                    /\ ret.result.value.end_time
                         = ret.self.end_time + (IF ret.op = "add" THEN ret.other
                                                ELSE 0 - ret.other)
                    /\ ret.result.value.text = ret.self.text

\* C8: every Interval or Point reached through the constructor, the bound
\* setters, the Point.time setter, concatenate, += and -= has
\* 0 <= start_time <= end_time (an operation that would break this raises
\* and leaves the value as it was).
C8_ValidBounds ==
    0 <= value.start_time /\ value.start_time <= value.end_time

\* ---------------------------------------------------------------------
\* Objects and references.  A Python name or list slot holds a reference;
\* here a reference is the index of the object in elems (Points) or in
\* tiers (PointTiers), and _objects lists hold references.
\* ---------------------------------------------------------------------
\* the values a list of references denotes
deref(es, ids) == [k \in 1..Len(ids) |-> es[ids[k]]]

\* PointTier.add_point on references: the argument object itself is stored
add_point_ref(es, self, p, overwrite) ==
    LET point == es[p]
        r1 == Tier_set_start_time(self, Min(self.start_time, point.start_time))
        r2 == Tier_set_end_time(r1.tier, Max(r1.tier.end_time, point.start_time))
        t  == r2.tier
        ids == t.objects
        objs == deref(es, ids)
        n  == Len(ids)
        i  == bisect_right(objs, point, "Point")
    IN  IF r1.raised THEN [elems |-> es, tier |-> r1.tier, raised |-> TRUE]
        ELSE IF r2.raised THEN [elems |-> es, tier |-> r2.tier, raised |-> TRUE]
        ELSE IF i < n /\ objs[i + 1].start_time = point.start_time
        THEN [elems |-> IF overwrite
                        THEN [es EXCEPT ![ids[i + 1]].text = point.text]
                        ELSE es,
              tier |-> t, raised |-> FALSE]
        ELSE IF i > 0 /\ i = n /\ objs[n].start_time = point.start_time
        THEN [elems |-> IF overwrite
                        THEN [es EXCEPT ![ids[n]].text = point.text]
                        ELSE es,
              tier |-> t, raised |-> FALSE]
        ELSE [elems |-> es, tier |-> [t EXCEPT !.objects = list_insert(ids, i, p)],
              raised |-> FALSE]

\* deepcopy of a list of Points: one new object per object referenced
deepcopy_objects(es, ids) ==
    LET D == {ids[k] : k \in 1..Len(ids)}
        nth(k) == CHOOSE d \in D : Cardinality({x \in D : x <= d}) = k
        fresh(d) == Len(es) + Cardinality({x \in D : x <= d})
    IN  [elems |-> es \o [k \in 1..Cardinality(D) |-> es[nth(k)]],
         ids |-> [k \in 1..Len(ids) |-> fresh(ids[k])]]

\* the absent name argument of TextGrid.append
None == "None"

\* TextGrid.append on references: with a name the tier is deep-copied and
\* the copy renamed, without one the argument object itself is stored
append_ref(es, ts, self, t, name) ==
    LET r1 == Tier_set_start_time(self, Min(self.start_time, ts[t].start_time))
        r2 == Tier_set_end_time(r1.tier, Max(r1.tier.end_time, ts[t].end_time))
        g  == r2.tier
        c  == deepcopy_objects(es, ts[t].objects)
        copy == [ts[t] EXCEPT !.objects = c.ids, !.name = name]
    IN  IF r1.raised THEN [elems |-> es, tiers |-> ts, grid |-> r1.tier, raised |-> TRUE]
        ELSE IF r2.raised THEN [elems |-> es, tiers |-> ts, grid |-> r2.tier, raised |-> TRUE]
        ELSE IF name # None
        THEN [elems |-> c.elems, tiers |-> Append(ts, copy),
              grid |-> [g EXCEPT !.objects = Append(g.objects, Len(ts) + 1)],
              raised |-> FALSE]
        ELSE [elems |-> es, tiers |-> ts,
              grid |-> [g EXCEPT !.objects = Append(g.objects, t)],
              raised |-> FALSE]

\* ---------------------------------------------------------------------
\* Specification SpecAlias: a caller creates Points and PointTiers, passes
\* them to add_point and TextGrid.append, reads the containers and
\* mutates the objects it holds
\* ---------------------------------------------------------------------
MaxObj == 2      \* Point objects allocated
MaxTiers == 2    \* PointTier objects allocated
MaxGrid == 1     \* tiers appended to the TextGrid
AliasTimes == 0..1
Names == {"n", "m"}

\* what the containers store, by value: each tier's elements and, for the
\* TextGrid, each stored tier's name and elements
Stored ==
    [tiers |-> [t \in 1..Len(tiers) |-> deref(elems, tiers[t].objects)],
     grid |-> [i \in 1..Len(grid.objects) |->
                 [name |-> tiers[grid.objects[i]].name,
                  objects |-> deref(elems, tiers[grid.objects[i]].objects)]]]

InitAlias ==
    /\ ret = Unset.NoRet
    /\ elems = <<>>
    /\ tiers = <<>>
    /\ grid = Tier(0, 0)
    /\ held = [points |-> {}, tiers |-> {}]
    /\ alias = Unset.NoAlias
    /\ kind = "PointTier"
    /\ tier = Tier(0, 0)
    /\ last = Call("init", Unset.NoItem, FALSE, FALSE, tier)
    /\ pending = Unset.NoOrder
    /\ built = Unset.NoBuilt
    /\ pc = "idle"
    /\ file = <<>>
    /\ loaded = Unset.NoLoad
    /\ value = NoValue
    /\ prim = Unset.NoPrim
    /\ tg = Tier(0, 0)
    /\ tgop = Unset.NoGridOp

AliasRest == <<tierVars, orderVars, praatVars, primVars, gridVars, ret>>

NextAlias ==
    \* p = Point(time, text)
    \/ /\ Len(elems) < MaxObj
       /\ \E time \in AliasTimes, text \in Texts :
            elems' = Append(elems, Point(time, text))
       /\ held' = [held EXCEPT !.points = @ \cup {Len(elems) + 1}]
       /\ alias' = [op |-> "Point", pre |-> Unset.NoStored]
       /\ UNCHANGED <<tiers, grid, AliasRest>>
    \* t = PointTier(name)
    \/ /\ Len(tiers) < MaxTiers
       /\ \E name \in Names :
            tiers' = Append(tiers, [name |-> name, start_time |-> 0, end_time |-> 0,
                                    objects |-> <<>>])
       /\ held' = [held EXCEPT !.tiers = @ \cup {Len(tiers) + 1}]
       /\ alias' = [op |-> "PointTier", pre |-> Unset.NoStored]
       /\ UNCHANGED <<elems, grid, AliasRest>>
    \* t.add_point(p, overwrite)
    \/ /\ \E t \in held.tiers, p \in held.points, overwrite \in BOOLEAN :
            LET r == add_point_ref(elems, tiers[t], p, overwrite)
            IN  /\ Len(r.tier.objects) <= MaxObj
                /\ elems' = r.elems
                /\ tiers' = [tiers EXCEPT ![t] = r.tier]
       /\ alias' = [op |-> "add_point", pre |-> Unset.NoStored]
       /\ UNCHANGED <<grid, held, AliasRest>>
    \* q = t[i]  (also: for q in t), the stored object itself is returned
    \/ /\ \E t \in held.tiers, i \in 1..MaxObj :
            /\ i <= Len(tiers[t].objects)
            /\ held' = [held EXCEPT !.points = @ \cup {tiers[t].objects[i]}]
       /\ alias' = [op |-> "getitem", pre |-> Unset.NoStored]
       /\ UNCHANGED <<elems, tiers, grid, AliasRest>>
    \* qs = t.objects, a deep copy
    \/ /\ \E t \in held.tiers :
            LET c == deepcopy_objects(elems, tiers[t].objects)
            IN  /\ Len(c.elems) <= MaxObj
                /\ elems' = c.elems
                /\ held' = [held EXCEPT !.points = @ \cup {c.ids[k] : k \in 1..Len(c.ids)}]
       /\ alias' = [op |-> "objects", pre |-> Unset.NoStored]
       /\ UNCHANGED <<tiers, grid, AliasRest>>
    \* u = tg[i], the stored tier itself is returned
    \/ /\ \E i \in 1..MaxGrid :
            /\ i <= Len(grid.objects)
            /\ held' = [held EXCEPT !.tiers = @ \cup {grid.objects[i]}]
       /\ alias' = [op |-> "getitem", pre |-> Unset.NoStored]
       /\ UNCHANGED <<elems, tiers, grid, AliasRest>>
    \* tg.append(t) / tg.append(t, name)
    \/ /\ Len(grid.objects) < MaxGrid
       /\ \E t \in held.tiers, name \in Names \cup {None} :
            LET r == append_ref(elems, tiers, grid, t, name)
            IN  /\ Len(r.elems) <= MaxObj
                /\ Len(r.tiers) <= MaxTiers
                /\ elems' = r.elems
                /\ tiers' = r.tiers
                /\ grid' = r.grid
       /\ alias' = [op |-> "append", pre |-> Unset.NoStored]
       /\ UNCHANGED <<held, AliasRest>>
    \* the caller assigns p.text on an object it holds
    \/ /\ \E p \in held.points, text \in Texts :
            elems' = [elems EXCEPT ![p].text = text]
       /\ alias' = [op |-> "caller", pre |-> Stored]
       /\ UNCHANGED <<tiers, grid, held, AliasRest>>
    \* the caller assigns p.time on an object it holds
    \/ /\ \E p \in held.points, time \in AliasTimes :
            elems' = [elems EXCEPT ![p] = set_time(elems[p], time).value]
       /\ alias' = [op |-> "caller", pre |-> Stored]
       /\ UNCHANGED <<tiers, grid, held, AliasRest>>
    \* the caller assigns t.name on a tier it holds
    \/ /\ \E t \in held.tiers, name \in Names :
            tiers' = [tiers EXCEPT ![t].name = name]
       /\ alias' = [op |-> "caller", pre |-> Stored]
       /\ UNCHANGED <<elems, grid, held, AliasRest>>

SpecAlias == InitAlias /\ [][NextAlias]_vars

\* C9: a mutation made by the caller on an object it holds - a Point it
\* passed to add_point, a tier it passed to append, or anything it got by
\* reading a container - leaves what the containers store as it was.
C9_NoSharedState ==
    (alias.op = "caller") => Stored = alias.pre

\* ---------------------------------------------------------------------
\* TextGrid: a _Tier whose objects are tiers.  A stored tier is
\* [name, start_time, end_time, is_tier]; the result of an operation is
\* [tier, raised] with tier the TextGrid.
\* ---------------------------------------------------------------------
\* is_tier
is_tier(obj) == obj.is_tier

\* TextGrid.append(tier, name)
TextGrid_append(self, t, name) ==
    LET r1 == Tier_set_start_time(self, Min(self.start_time, t.start_time))
        r2 == Tier_set_end_time(r1.tier, Max(r1.tier.end_time, t.end_time))
        stored == IF name # None THEN [t EXCEPT !.name = name] ELSE t
    IN  IF r1.raised THEN r1
        ELSE IF r2.raised THEN r2
        ELSE [tier |-> [r2.tier EXCEPT !.objects = Append(@, stored)],
              raised |-> FALSE]

\* TextGrid.extend(tiers)
RECURSIVE TextGrid_extend(_, _)
TextGrid_extend(self, ts) ==
    IF ts = <<>> THEN [tier |-> self, raised |-> FALSE]
    ELSE LET r == TextGrid_append(self, Head(ts), None)
         IN  IF r.raised THEN r ELSE TextGrid_extend(r.tier, Tail(ts))

\* TextGrid.insert(index, tier), index an int
TextGrid_insert(self, index, t) ==
    IF ~is_tier(t) THEN [tier |-> self, raised |-> TRUE]
    ELSE IF index < 0 \/ index > Len(self.objects) THEN [tier |-> self, raised |-> TRUE]
    ELSE [tier |-> [self EXCEPT !.objects = list_insert(@, index, t)],
          raised |-> FALSE]

\* del self._objects[t] for each t of to_remove, 0-based positions
RECURSIVE delete_each(_, _)
delete_each(objs, to_remove) ==
    IF to_remove = <<>> THEN objs
    ELSE delete_each(list_delete(objs, Head(to_remove) + 1), Tail(to_remove))

\* [t for t in range(len - 1, -1, -1) if objs[t].name == name]
RECURSIVE matching_downwards(_, _, _)
matching_downwards(objs, t, name) ==
    IF t < 0 THEN <<>>
    ELSE (IF objs[t + 1].name = name THEN <<t>> ELSE <<>>)
         \o matching_downwards(objs, t - 1, name)

\* del tg[name] that stops after the first tier with that name
TextGrid_delitem_first_only(self, name) ==
    LET hits == {k \in 1..Len(self.objects) : self.objects[k].name = name}
    IN  [tier |-> IF hits = {} THEN self
                  ELSE [self EXCEPT !.objects =
                          list_delete(@, CHOOSE h \in hits : \A g \in hits : h <= g)],
         raised |-> FALSE]

\* TextGrid.__delitem__ with a str
TextGrid_delitem_name(self, name) ==
    LET to_remove == matching_downwards(self.objects, Len(self.objects) - 1, name)
    IN  [tier |-> [self EXCEPT !.objects = delete_each(@, to_remove)],
         raised |-> FALSE]

\* TextGrid.__delitem__ with an int: negative positions count from the end
TextGrid_delitem_int(self, i) ==
    LET n == Len(self.objects)
    IN  IF i >= n \/ i < 0 - n THEN [tier |-> self, raised |-> TRUE]
        ELSE [tier |-> [self EXCEPT !.objects =
                          list_delete(@, (IF i < 0 THEN i + n ELSE i) + 1)],
              raised |-> FALSE]

\* TextGrid.__contains__
TextGrid_contains(self, name) ==
    \E k \in 1..Len(self.objects) : self.objects[k].name = name

\* what index returns when no tier has the name (Python's None)
NotFound == 0 - 1

\* TextGrid.index: 0-based position of the first tier with the name
RECURSIVE index_from(_, _, _)
index_from(objs, i, name) ==
    IF i >= Len(objs) THEN NotFound
    ELSE IF objs[i + 1].name = name THEN i
    ELSE index_from(objs, i + 1, name)

TextGrid_index(self, name) == index_from(self.objects, 0, name)

\* ---------------------------------------------------------------------
\* Specification SpecGrid: a TextGrid changed by append, extend, insert
\* and del
\* ---------------------------------------------------------------------
MaxGridLen == 3    \* tiers in the TextGrid

TierValues ==
    {[name |-> n, start_time |-> s, end_time |-> e, is_tier |-> TRUE] :
        n \in Names, s \in AliasTimes, e \in AliasTimes}

NotATier == [name |-> "n", start_time |-> 0, end_time |-> 0, is_tier |-> FALSE]

GridOp(op, name, r, pre) ==
    /\ Len(r.tier.objects) <= MaxGridLen
    /\ tg' = r.tier
    /\ tgop' = [op |-> op, name |-> name, raised |-> r.raised, pre |-> pre]
    /\ UNCHANGED <<tierVars, orderVars, praatVars, primVars, aliasVars, ret>>

InitGrid ==
    /\ ret = Unset.NoRet
    /\ \E s, e \in AliasTimes : tg = Tier(s, e)
    /\ tgop = Unset.NoGridOp
    /\ kind = "PointTier"
    /\ tier = Tier(0, 0)
    /\ last = Call("init", Unset.NoItem, FALSE, FALSE, tier)
    /\ pending = Unset.NoOrder
    /\ built = Unset.NoBuilt
    /\ pc = "idle"
    /\ file = <<>>
    /\ loaded = Unset.NoLoad
    /\ value = NoValue
    /\ prim = Unset.NoPrim
    /\ elems = <<>>
    /\ tiers = <<>>
    /\ grid = Tier(0, 0)
    /\ held = {}
    /\ alias = Unset.NoAlias

\* One disjunct per operation on tg
NextGrid ==
    \* tg.append(t, name)
    \/ \E t \in TierValues, name \in Names \cup {None} :
         GridOp("append", name, TextGrid_append(tg, t, name), <<>>)
    \* tg.extend(ts)
    \/ \E n \in 0..2 : \E ts \in [1..n -> TierValues] :
         GridOp("extend", None, TextGrid_extend(tg, ts), <<>>)
    \* tg.insert(index, t), t a tier or some other object
    \/ \E t \in TierValues \cup {NotATier}, index \in (0 - 1)..(MaxGridLen + 1) :
         GridOp("insert", None, TextGrid_insert(tg, index, t), <<>>)
    \* del tg[name]
    \/ \E name \in Names :
         GridOp("del_name", name, TextGrid_delitem_name(tg, name), tg.objects)
    \* del tg[i]
    \/ \E i \in (0 - MaxGridLen - 1)..MaxGridLen :
         GridOp("del_int", None, TextGrid_delitem_int(tg, i), <<>>)

SpecGrid == InitGrid /\ [][NextGrid]_vars

\* C10: del tg[name] removes every tier named name and no other, keeps
\* the remaining tiers in their order, does nothing when no tier has the
\* name, and afterwards name is not in tg and index(name) finds nothing.
C10_DelByName ==
    (tgop.op = "del_name") =>
        LET others(t) == t.name # tgop.name
        IN  /\ ~tgop.raised
            /\ tg.objects = SelectSeq(tgop.pre, others)
            /\ (\A k \in 1..Len(tgop.pre) : others(tgop.pre[k]))
                  => tg.objects = tgop.pre
            /\ ~TextGrid_contains(tg, tgop.name)
            /\ TextGrid_index(tg, tgop.name) = NotFound

\* a del by name that removed two tiers that were not adjacent
C10_Witness ==
    /\ tgop.op = "del_name"
    /\ Len(tgop.pre) = 3
    /\ tgop.pre[1].name = tgop.name
    /\ tgop.pre[2].name # tgop.name
    /\ tgop.pre[3].name = tgop.name
    /\ Len(tg.objects) = 1

\* ---------------------------------------------------------------------
\* TextGrid files.  Here a tier carries its class and its name,
\* [cls, name, start_time, end_time, objects], names being sequences of
\* characters like texts.
\* ---------------------------------------------------------------------
\* PointTier.__init__ / IntervalTier.__init__ (_Tier.__init__)
PointTier(name, start_time, end_time) ==
    [cls |-> "PointTier", name |-> name, start_time |-> start_time,
     end_time |-> end_time, objects |-> <<>>]

IntervalTier(name, start_time, end_time) ==
    [cls |-> "IntervalTier", name |-> name, start_time |-> start_time,
     end_time |-> end_time, objects |-> <<>>]

\* TextGrid.__init__
TextGrid(start_time, end_time) == Tier(start_time, end_time)

\* Interval.__contains__ for a ranged value
Interval_contains(self, other) ==
    self.start_time <= other.start_time /\ other.end_time <= self.end_time

\* TextGrid.write: the intervals of one tier
RECURSIVE write_grid_intervals(_, _)
write_grid_intervals(output, j) ==
    IF j > Len(output) THEN <<>>
    ELSE Literal.Tabs3 \o Literal.Intervals_open \o str_int(j) \o Literal.Block_close
         \o Literal.Tabs3 \o Literal.Tab_xmin_eq \o str_float(output[j].start_time) \o <<"\n">>
         \o Literal.Tabs3 \o Literal.Tab_xmax_eq \o str_float(output[j].end_time) \o <<"\n">>
         \o Literal.Tabs3 \o Literal.Tab_text_eq \o Literal.Quote \o output[j].text \o Literal.Quote \o <<"\n">>
         \o write_grid_intervals(output, j + 1)

\* TextGrid.write: the points of one tier
RECURSIVE write_grid_points(_, _)
write_grid_points(objs, j) ==
    IF j > Len(objs) THEN <<>>
    ELSE Literal.Tabs3 \o Literal.Points_open \o str_int(j) \o Literal.Block_close
         \o Literal.Tabs3 \o Literal.Tab_time_eq \o str_float(objs[j].start_time) \o <<"\n">>
         \o Literal.Tabs3 \o Literal.Tab_text_eq \o Literal.Quote \o objs[j].text \o Literal.Quote \o <<"\n">>
         \o write_grid_points(objs, j + 1)

\* TextGrid.write: the tiers
RECURSIVE write_items(_, _)
write_items(objs, i) ==
    IF i > Len(objs) THEN <<>>
    ELSE LET t == objs[i]
             output == fill_in_the_gaps(t)
             head == Literal.Name_eq \o Literal.Quote \o t.name \o Literal.Quote \o <<"\n">>
                     \o Literal.Tabs2 \o Literal.Xmin_eq \o str_float(t.start_time) \o <<"\n">>
                     \o Literal.Tabs2 \o Literal.Xmax_eq \o str_float(t.end_time) \o <<"\n">>
         IN  Literal.Item_open \o str_int(i) \o Literal.Block_close
             \o (IF t.cls = "IntervalTier"
                 THEN Literal.Class_IntervalTier \o head
                      \o Literal.Tabs2 \o Literal.Intervals_size_eq \o str_int(Len(output)) \o <<"\n">>
                      \o write_grid_intervals(output, 1)
                 ELSE Literal.Class_TextTier \o head
                      \o Literal.Tabs2 \o Literal.Points_size_eq \o str_int(Len(t.objects)) \o <<"\n">>
                      \o write_grid_points(t.objects, 1))
             \o write_items(objs, i + 1)

\* TextGrid.write
TextGrid_write(self) ==
    Literal.TextGrid_header
    \o Literal.Xmin_eq \o str_float(self.start_time) \o <<"\n">>
    \o Literal.Xmax_eq \o str_float(self.end_time) \o <<"\n">>
    \o Literal.Tiers_exists
    \o Literal.Size_eq \o str_int(Len(self.objects)) \o <<"\n">>
    \o Literal.Item_list
    \o write_items(self.objects, 1)

\* line.strip().split()[-1]: the last whitespace-separated token; a line of
\* whitespace only has none (IndexError)
RECURSIVE last_token_from(_, _)
last_token_from(s, k) ==
    IF k = 0 \/ IsSpace(s[k]) THEN SubSeq(s, k + 1, Len(s))
    ELSE last_token_from(s, k - 1)

last_token(line) ==
    LET s == strip(line)
    IN  IF s = <<>> THEN [value |-> <<>>, raised |-> TRUE]
        ELSE [value |-> last_token_from(s, Len(s)), raised |-> FALSE]

\* TextGrid.read: the elements of one IntervalTier, each added
RECURSIVE read_grid_intervals(_, _, _, _)
read_grid_intervals(t, f, pos, n) ==
    IF n = 0 THEN [tier |-> t, raised |-> FALSE, next |-> pos]
    ELSE LET l1 == readline(f, pos)
             l2 == readline(f, l1.next)
             l3 == readline(f, l2.next)
             l4 == readline(f, l3.next)
             start_time == py_float(number_field(l2.line))
             end_time == py_float(number_field(l3.line))
             text == text_field(l4.line)
             r == IntervalTier_add(t, start_time.value, end_time.value, text, FALSE)
         IN  IF start_time.raised \/ end_time.raised \/ r.raised
             THEN [tier |-> t, raised |-> TRUE, next |-> pos]
             ELSE read_grid_intervals(r.tier, f, l4.next, n - 1)

\* TextGrid.read: the elements of one PointTier, each added
RECURSIVE read_grid_points(_, _, _, _)
read_grid_points(t, f, pos, n) ==
    IF n = 0 THEN [tier |-> t, raised |-> FALSE, next |-> pos]
    ELSE LET l1 == readline(f, pos)
             l2 == readline(f, l1.next)
             l3 == readline(f, l2.next)
             time == py_float(number_field(l2.line))
             text == text_field(l3.line)
             r == PointTier_add(t, time.value, text, FALSE)
         IN  IF time.raised \/ r.raised
             THEN [tier |-> t, raised |-> TRUE, next |-> pos]
             ELSE read_grid_points(r.tier, f, l3.next, n - 1)

\* TextGrid.read: the loop over the tiers; each tier read is appended
RECURSIVE read_items(_, _, _, _)
read_items(self, f, pos, n) ==
    IF n = 0 THEN [tier |-> self, raised |-> FALSE]
    ELSE LET l1 == readline(f, pos)
             l2 == readline(f, l1.next)
             l3 == readline(f, l2.next)
             l4 == readline(f, l3.next)
             l5 == readline(f, l4.next)
             l6 == readline(f, l5.next)
             tier_name == text_field(l3.line)
             start_time == py_float(number_field(l4.line))
             end_time == py_float(number_field(l5.line))
             tier_size == py_int(number_field(l6.line))
             failed == [tier |-> self, raised |-> TRUE]
         IN  IF start_time.raised \/ end_time.raised THEN failed
             ELSE IF Tier_raises(start_time.value, end_time.value) THEN failed
             ELSE IF tier_size.raised THEN failed
             ELSE LET t == IF text_field(l2.line) = Literal.IntervalTier_chars
                           THEN read_grid_intervals(
                                    IntervalTier(tier_name, start_time.value, end_time.value),
                                    f, l6.next, tier_size.value)
                           ELSE read_grid_points(
                                    PointTier(tier_name, start_time.value, end_time.value),
                                    f, l6.next, tier_size.value)
                      r == TextGrid_append(self, t.tier, None)
                  IN  IF t.raised THEN failed
                      ELSE IF r.raised THEN r
                      ELSE read_items(r.tier, f, t.next, n - 1)

\* TextGrid.read
TextGrid_read(self, f) ==
    LET l4 == readline(f, skip_lines(f, 1, 3))
        l5 == readline(f, l4.next)
        l6 == readline(f, l5.next)
        l7 == readline(f, l6.next)
        l8 == readline(f, l7.next)
        xmin == py_float(number_field(l4.line))
        r1 == Tier_set_start_time(self, xmin.value)
        xmax == py_float(number_field(l5.line))
        r2 == Tier_set_end_time(r1.tier, xmax.value)
        token == last_token(l7.line)
        n_tiers == py_int(token.value)
    IN  IF xmin.raised THEN [tier |-> self, raised |-> TRUE]
        ELSE IF r1.raised THEN r1
        ELSE IF xmax.raised THEN [tier |-> r1.tier, raised |-> TRUE]
        ELSE IF r2.raised THEN r2
        ELSE IF token.raised \/ n_tiers.raised THEN [tier |-> r2.tier, raised |-> TRUE]
        ELSE read_items(r2.tier, f, l8.next, n_tiers.value)

\* TextGrid.from_file
TextGrid_from_file(f) == TextGrid_read(TextGrid(0, 0), f)

\* [i for i in tier if i in target_interval]
RECURSIVE items_to_add(_, _)
items_to_add(objs, target_interval) ==
    IF objs = <<>> THEN <<>>
    ELSE (IF Interval_contains(target_interval, Head(objs)) THEN <<Head(objs)>> ELSE <<>>)
         \o items_to_add(Tail(objs), target_interval)

\* extract_selected: the retained items of one tier, shifted and added
RECURSIVE add_shifted(_, _, _)
add_shifted(extracted_tier, items, start_time) ==
    IF items = <<>> THEN [tier |-> extracted_tier, raised |-> FALSE]
    ELSE LET item == Head(items)
             r == IF extracted_tier.cls = "PointTier"
                  THEN PointTier_add(extracted_tier, item.start_time - start_time,
                                     item.text, FALSE)
                  ELSE IntervalTier_add(extracted_tier, item.start_time - start_time,
                                        item.end_time - start_time, item.text, FALSE)
         IN  IF r.raised THEN r ELSE add_shifted(r.tier, Tail(items), start_time)

\* extract_selected: the loop over the tiers of the loaded TextGrid
RECURSIVE extract_tiers(_, _, _, _)
extract_tiers(extracted_tg, objs, target_interval, start_time) ==
    IF objs = <<>> THEN [tier |-> extracted_tg, raised |-> FALSE]
    ELSE LET t == Head(objs)
             fresh == IF t.cls = "PointTier" THEN PointTier(t.name, 0, 0)
                                             ELSE IntervalTier(t.name, 0, 0)
             e == add_shifted(fresh, items_to_add(t.objects, target_interval), start_time)
             r == TextGrid_append(extracted_tg, e.tier, None)
         IN  IF e.raised THEN [tier |-> extracted_tg, raised |-> TRUE]
             ELSE IF r.raised THEN r
             ELSE extract_tiers(r.tier, Tail(objs), target_interval, start_time)

\* TextGrid.extract_selected once the file is read: loaded_tg is the outcome
\* of from_file, [tier, raised]; result [tier, raised]
extract_from(loaded_tg, start_time, end_time) ==
    LET target_interval == new_Interval(start_time, end_time, <<>>)
        none == [tier |-> TextGrid(0, 0), raised |-> TRUE]
    IN  IF loaded_tg.raised \/ target_interval.raised THEN none
        ELSE IF Tier_raises(start_time, end_time - start_time) THEN none
        ELSE extract_tiers(TextGrid(start_time, end_time - start_time),
                           loaded_tg.tier.objects, target_interval.value, start_time)

\* TextGrid.extract_selected(file, start_time, end_time)
extract_selected(f, start_time, end_time) ==
    extract_from(TextGrid_from_file(f), start_time, end_time)

\* ---------------------------------------------------------------------
\* Specification SpecExtract: a TextGrid is built from tiers filled by
\* add, written to a file, and extract_selected is called on the file.
\* tier is the tier being filled (pc = "tier"), tg the TextGrid.
\* ---------------------------------------------------------------------
MaxDocTiers == 2    \* tiers of the TextGrid written
MaxDocElems == 3    \* elements added to the tiers of the TextGrid written
TierNames == {<<"n">>, <<"m">>}

RECURSIVE count_elems(_)
count_elems(objs) ==
    IF objs = <<>> THEN 0 ELSE Len(Head(objs).objects) + count_elems(Tail(objs))

InitExtract ==
    /\ tg = TextGrid(0, 0)
    /\ tier = Tier(0, 0)
    /\ pc = "build"
    /\ file = <<>>
    /\ ret = Unset.NoRet
    /\ kind = "IntervalTier"
    /\ last = Call("init", Unset.NoItem, FALSE, FALSE, tier)
    /\ pending = Unset.NoOrder
    /\ built = Unset.NoBuilt
    /\ loaded = Unset.NoLoad
    /\ elems = <<>>
    /\ tiers = <<>>
    /\ grid = Tier(0, 0)
    /\ held = {}
    /\ alias = Unset.NoAlias
    /\ tgop = Unset.NoGridOp
    /\ value = NoValue
    /\ prim = Unset.NoPrim

ExtractRest == <<kind, last, orderVars, loaded, primVars, aliasVars, tgop>>

NextExtract ==
    \* t = PointTier(name) / t = IntervalTier(name)
    \/ /\ pc = "build"
       /\ Len(tg.objects) < MaxDocTiers
       /\ \E name \in TierNames :
            tier' \in {PointTier(name, 0, 0), IntervalTier(name, 0, 0)}
       /\ pc' = "tier"
       /\ UNCHANGED <<tg, file, ret, ExtractRest>>
    \* t.add(...)
    \/ /\ pc = "tier"
       /\ count_elems(tg.objects) + Len(tier.objects) < MaxDocElems
       /\ \E s, e \in Times, text \in Texts :
            LET r == IF tier.cls = "PointTier"
                     THEN PointTier_add(tier, s, text, FALSE)
                     ELSE IntervalTier_add(tier, s, e, text, FALSE)
            IN  /\ ~r.raised
                /\ tier' = r.tier
       /\ UNCHANGED <<tg, pc, file, ret, ExtractRest>>
    \* tg.append(t)
    \/ /\ pc = "tier"
       /\ LET r == TextGrid_append(tg, tier, None)
          IN  /\ ~r.raised
              /\ tg' = r.tier
       /\ tier' = Tier(0, 0)
       /\ pc' = "build"
       /\ UNCHANGED <<file, ret, ExtractRest>>
    \* tg.write(file)
    \/ /\ pc = "build"
       /\ file' = TextGrid_write(tg)
       /\ pc' = "written"
       /\ UNCHANGED <<tg, tier, ret, ExtractRest>>
    \* TextGrid.extract_selected(file, start_time, end_time)
    \/ /\ pc = "written"
       /\ ret' \in LET loaded_tg == TextGrid_from_file(file)
                    IN  {[op |-> "extract_selected", start_time |-> start_time,
                          end_time |-> end_time, loaded |-> loaded_tg,
                          tier |-> extract_from(loaded_tg, start_time, end_time).tier,
                          raised |-> extract_from(loaded_tg, start_time, end_time).raised] :
                         start_time \in Times, end_time \in Times}
       /\ pc' = "done"
       /\ UNCHANGED <<tg, tier, file, ExtractRest>>

SpecExtract == InitExtract /\ [][NextExtract]_vars

\* C11: extract_selected(file, start, end) with 0 <= start <= end on a file
\* that loads returns a document with as many tiers as the loaded one, in
\* the same order with the same names and kinds, each holding exactly the
\* elements of the loaded tier that lie fully inside [start, end], in the
\* same order, shifted by -start and with their texts.
C11_ExtractSelected ==
    LET Selected(objs, s, e) ==
        LET kept == SelectSeq(objs, LAMBDA i : s <= i.start_time /\ i.end_time <= e)
        IN  [k \in 1..Len(kept) |->
                [kept[k] EXCEPT !.start_time = @ - s, !.end_time = @ - s]]
    IN  (/\ ret.op = "extract_selected"
         /\ 0 <= ret.start_time
         /\ ret.start_time <= ret.end_time
         /\ ~ret.loaded.raised)
        => /\ ~ret.raised
           /\ Len(ret.tier.objects) = Len(ret.loaded.tier.objects)
           /\ \A k \in 1..Len(ret.loaded.tier.objects) :
                /\ ret.tier.objects[k].cls = ret.loaded.tier.objects[k].cls
                /\ ret.tier.objects[k].name = ret.loaded.tier.objects[k].name
                /\ ret.tier.objects[k].objects
                     = Selected(ret.loaded.tier.objects[k].objects,
                                ret.start_time, ret.end_time)

\* ---------------------------------------------------------------------
\* Tiers and lists derived from a tier
\* ---------------------------------------------------------------------
\* the loop of IntervalTier.from_points / from_point_tier, i 0-based as in
\* range(1, len(points))
RECURSIVE from_points_loop(_, _, _)
from_points_loop(it, points, i) ==
    IF i >= Len(points) THEN [tier |-> it, raised |-> FALSE]
    ELSE LET r == IntervalTier_add(it, points[i].start_time, points[i + 1].start_time,
                                   points[i].text, FALSE)
         IN  IF r.raised THEN r ELSE from_points_loop(r.tier, points, i + 1)

\* from_points labelling each interval with the text of the point at its end
from_points_next_text(points, name) ==
    LET RECURSIVE loop(_, _)
        loop(it, i) ==
            IF i >= Len(points) THEN [tier |-> it, raised |-> FALSE]
            ELSE LET r == IntervalTier_add(it, points[i].start_time,
                                           points[i + 1].start_time,
                                           points[i + 1].text, FALSE)
                 IN  IF r.raised THEN r ELSE loop(r.tier, i + 1)
    IN  loop(IntervalTier(name, 0, 0), 1)

\* IntervalTier.from_points(points, name)
from_points(points, name) == from_points_loop(IntervalTier(name, 0, 0), points, 1)

\* IntervalTier.from_point_tier(tier, name)
from_point_tier(t, name) ==
    LET it == IntervalTier(IF name = <<>> THEN t.name ELSE name, 0, 0)
    IN  from_points_loop(it, t.objects, 1)

\* ---------------------------------------------------------------------
\* Specification SpecDerive: one named tier filled by add, and the calls
\* that derive a tier or a list from it and leave it as it is
\* ---------------------------------------------------------------------
InitDerive ==
    /\ \E s, e \in Times :
         tier \in {PointTier(<<"n">>, s, e), IntervalTier(<<"n">>, s, e)}
    /\ ret = Unset.NoRet
    /\ kind = "IntervalTier"
    /\ last = Call("init", Unset.NoItem, FALSE, FALSE, Tier(0, 0))
    /\ pending = Unset.NoOrder
    /\ built = Unset.NoBuilt
    /\ pc = "idle"
    /\ file = <<>>
    /\ loaded = Unset.NoLoad
    /\ elems = <<>>
    /\ tiers = <<>>
    /\ grid = Tier(0, 0)
    /\ held = {}
    /\ alias = Unset.NoAlias
    /\ tg = Tier(0, 0)
    /\ tgop = Unset.NoGridOp
    /\ value = NoValue
    /\ prim = Unset.NoPrim

DeriveRest == <<kind, last, orderVars, praatVars, primVars, aliasVars, gridVars>>

NextDerive ==
    \* tier.add(...)
    \/ /\ \E s, e \in Times, text \in Texts :
            LET r == IF tier.cls = "PointTier"
                     THEN PointTier_add(tier, s, text, FALSE)
                     ELSE IntervalTier_add(tier, s, e, text, FALSE)
            IN  /\ Len(r.tier.objects) <= MaxLen
                /\ tier' = r.tier
       /\ ret' = Unset.NoRet
       /\ UNCHANGED DeriveRest
    \* IntervalTier.from_points(list(tier), name)
    \/ /\ tier.cls = "PointTier"
       /\ \E name \in {<<>>, <<"m">>} :
            LET r == from_points(tier.objects, name)
            IN  ret' = [op |-> "from_points", points |-> tier.objects,
                        tier |-> r.tier, raised |-> r.raised]
       /\ UNCHANGED <<tier, DeriveRest>>
    \* IntervalTier.from_point_tier(tier, name)
    \/ /\ tier.cls = "PointTier"
       /\ \E name \in {<<>>, <<"m">>} :
            LET r == from_point_tier(tier, name)
            IN  ret' = [op |-> "from_point_tier", points |-> tier.objects,
                        tier |-> r.tier, raised |-> r.raised]
       /\ UNCHANGED <<tier, DeriveRest>>
    \* tier._fill_in_the_gaps()
    \/ /\ tier.cls = "IntervalTier"
       /\ ret' = [op |-> "_fill_in_the_gaps", self |-> tier,
                  output |-> fill_in_the_gaps(tier)]
       /\ UNCHANGED <<tier, DeriveRest>>

SpecDerive == InitDerive /\ [][NextDerive]_vars

\* C12: from_points / from_point_tier on N points of strictly increasing
\* times yields exactly N-1 intervals (none for N <= 1), the i-th from the
\* time of point i to the time of point i+1 with the text of point i; the
\* text of the last point is used for no interval.
C12_FromPoints ==
    LET StrictlyIncreasing(points) ==
        \A i \in 1..(Len(points) - 1) : points[i].start_time < points[i + 1].start_time
    IN  (/\ ret.op \in {"from_points", "from_point_tier"}
         /\ StrictlyIncreasing(ret.points))
        => /\ ~ret.raised
           /\ Len(ret.tier.objects) = Max(Len(ret.points) - 1, 0)
           /\ \A i \in 1..Len(ret.tier.objects) :
                ret.tier.objects[i] = [start_time |-> ret.points[i].start_time,
                                       end_time |-> ret.points[i + 1].start_time,
                                       text |-> ret.points[i].text]

\* three points of increasing times and different texts were converted
C12_Witness ==
    LET StrictlyIncreasing(points) ==
        \A i \in 1..(Len(points) - 1) : points[i].start_time < points[i + 1].start_time
    IN  /\ ret.op = "from_points"
        /\ Len(ret.points) = 3
        /\ StrictlyIncreasing(ret.points)
        /\ ret.points[1].text # ret.points[2].text
        /\ Len(ret.tier.objects) = 2

\* ---------------------------------------------------------------------
\* Seg files.  Here a time is a whole number of ticks, SegUnit ticks to the
\* second, so that times between two sample positions exist; samplerate and
\* byterate are whole numbers as in the signature of write_seg.
\* ---------------------------------------------------------------------
SegUnit == 4

\* seg_name2id('G1'), the default tier_type of write_seg
seg_name2id_G1 == 1

\* round(num / den) for num >= 0 and den > 0: halves go to the even neighbour
py_round(num, den) ==
    LET q == num \div den
        r == num % den
    IN  IF 2 * r < den THEN q
        ELSE IF 2 * r > den THEN q + 1
        ELSE IF q % 2 = 0 THEN q ELSE q + 1

\* PointTier.write_seg: the label lines
RECURSIVE write_seg_points(_, _, _, _)
write_seg_points(objs, i, samplerate, byterate) ==
    IF i > Len(objs) THEN <<>>
    ELSE LET seg_value == py_round(objs[i].start_time * samplerate * byterate, SegUnit)
         IN  str_int(seg_value) \o <<",">> \o str_int(seg_name2id_G1) \o <<",">>
             \o objs[i].text \o <<"\n">>
             \o write_seg_points(objs, i + 1, samplerate, byterate)

\* PointTier.write_seg(file, samplerate=..., byterate=...)
write_seg(self, samplerate, byterate) ==
    Literal.Seg_parameters
    \o Literal.Seg_sampling_freq \o str_int(samplerate) \o <<"\n">>
    \o Literal.Seg_byte_per_sample \o str_int(byterate) \o <<"\n">>
    \o Literal.Seg_code_channel
    \o Literal.Seg_n_label \o str_int(Len(self.objects)) \o <<"\n">>
    \o Literal.Seg_labels
    \o write_seg_points(self.objects, 1, samplerate, byterate)

\* s.split(c): the pieces between the occurrences of the character c
RECURSIVE split_on(_, _, _, _)
split_on(s, c, k, piece) ==
    IF k > Len(s) THEN <<piece>>
    ELSE IF s[k] = c THEN <<piece>> \o split_on(s, c, k + 1, <<>>)
    ELSE split_on(s, c, k + 1, Append(piece, s[k]))

\* ','.join(parts)
RECURSIVE join_commas(_)
join_commas(parts) ==
    IF parts = <<>> THEN <<>>
    ELSE IF Len(parts) = 1 THEN parts[1]
    ELSE parts[1] \o <<",">> \o join_commas(Tail(parts))

\* float(line.split('=')[-1]); float() ignores surrounding whitespace
rate_field(line) ==
    LET parts == split_on(line, "=", 1, <<>>)
    IN  py_float(strip(parts[Len(parts)]))

\* PointTier.read_seg: the loop over the label lines up to the end of the file
RECURSIVE read_seg_lines(_, _, _, _, _, _)
read_seg_lines(self, f, pos, samplerate, byterate, tier_name) ==
    IF pos > Len(f)
    THEN [tier |-> IF self.name = <<>> THEN [self EXCEPT !.name = tier_name] ELSE self,
          raised |-> FALSE]
    ELSE LET l == readline(f, pos)
             parts == split_on(strip(l.line), ",", 1, <<>>)
             sample == py_float(strip(parts[1]))
             time == (sample.value * SegUnit) \div (byterate * samplerate)
             r == PointTier_add(self, time, join_commas(SubSeq(parts, 3, Len(parts))),
                                FALSE)
         IN  IF sample.raised \/ byterate = 0 \/ samplerate = 0 \/ Len(parts) < 2
             THEN [tier |-> self, raised |-> TRUE]
             ELSE IF r.raised THEN r
             ELSE read_seg_lines(r.tier, f, l.next, samplerate, byterate, parts[2])

\* PointTier.read_seg
read_seg(self, f) ==
    LET l2 == readline(f, skip_lines(f, 1, 1))
        l3 == readline(f, l2.next)
        samplerate == rate_field(l2.line)
        byterate == rate_field(l3.line)
    IN  IF samplerate.raised \/ byterate.raised THEN [tier |-> self, raised |-> TRUE]
        ELSE read_seg_lines(self, f, skip_lines(f, l3.next, 4),
                            samplerate.value, byterate.value, <<>>)

\* PointTier.from_seg_file
from_seg_file(f) == read_seg(PointTier(<<>>, 0, 0), f)

\* ---------------------------------------------------------------------
\* Specification SpecSeg: a PointTier is filled by add, written with
\* write_seg and read back with from_seg_file
\* ---------------------------------------------------------------------
SegTimes == 0..(2 * MaxTime)
SegRates == {1, 2}
SegChars == {"a", ",", " "}
SegTexts == UNION {[1..n -> SegChars] : n \in 0..MaxTextLen}

InitSeg ==
    /\ tier = PointTier(<<"n">>, 0, 0)
    /\ pc = "build"
    /\ file = <<>>
    /\ loaded = Unset.NoLoad
    /\ ret = Unset.NoRet
    /\ kind = "PointTier"
    /\ last = Call("init", Unset.NoItem, FALSE, FALSE, Tier(0, 0))
    /\ pending = Unset.NoOrder
    /\ built = Unset.NoBuilt
    /\ elems = <<>>
    /\ tiers = <<>>
    /\ grid = Tier(0, 0)
    /\ held = {}
    /\ alias = Unset.NoAlias
    /\ tg = Tier(0, 0)
    /\ tgop = Unset.NoGridOp
    /\ value = NoValue
    /\ prim = Unset.NoPrim

SegRest == <<kind, last, orderVars, primVars, aliasVars, gridVars>>

NextSeg ==
    \* tier.add(time, text)
    \/ /\ pc = "build"
       /\ \E time \in SegTimes, text \in SegTexts :
            LET r == PointTier_add(tier, time, text, FALSE)
            IN  /\ Len(r.tier.objects) <= MaxWritten
                /\ tier' = r.tier
       /\ UNCHANGED <<pc, file, loaded, ret, SegRest>>
    \* tier.write_seg(file, samplerate=samplerate, byterate=byterate)
    \/ /\ pc = "build"
       /\ \E samplerate \in SegRates, byterate \in SegRates :
            /\ file' = write_seg(tier, samplerate, byterate)
            /\ ret' = [op |-> "write_seg", samplerate |-> samplerate,
                       byterate |-> byterate]
       /\ pc' = "written"
       /\ UNCHANGED <<tier, loaded, SegRest>>
    \* PointTier.from_seg_file(file)
    \/ /\ pc = "written"
       /\ loaded' = from_seg_file(file)
       /\ pc' = "read"
       /\ UNCHANGED <<tier, file, ret, SegRest>>

SpecSeg == InitSeg /\ [][NextSeg]_vars

\* C16: write_seg followed by read_seg into a fresh tier at the same
\* samplerate and byterate gives a tier with as many points, the same texts
\* in the same order, and each time within one resolution unit
\* 1/(samplerate*byterate) of the original (SegUnit/(samplerate*byterate)
\* ticks).
C16_SegRoundTrip ==
    LET Abs(x) == IF x < 0 THEN 0 - x ELSE x
    IN  (pc = "read")
        => /\ ~loaded.raised
           /\ Len(loaded.tier.objects) = Len(tier.objects)
           /\ \A i \in 1..Len(tier.objects) :
                /\ loaded.tier.objects[i].text = tier.objects[i].text
                /\ Abs(loaded.tier.objects[i].start_time - tier.objects[i].start_time)
                       * ret.samplerate * ret.byterate <= SegUnit

\* C17: for an IntervalTier with start_time < end_time whose stored
\* intervals are pairwise non-overlapping, a tier that stores none included,
\* the list returned by _fill_in_the_gaps starts at the tier's start_time,
\* ends at its end_time, has each element start where the previous one
\* ends, holds the stored intervals unchanged and in order and otherwise
\* only elements of empty text; the tier is left as it was.
C17_FillTilesSpan ==
    LET NonOverlapping(objs) ==
        \A i, j \in Positions(objs) : i # j => ~overlaps(objs[i], objs[j])
    IN  LET IsFilled(output, stored) ==
            \E kept \in SUBSET (1..Len(output)) :
                /\ Cardinality(kept) = Len(stored)
                /\ \A k \in (1..Len(output)) \ kept : output[k].text = <<>>
                /\ \A k \in kept :
                     output[k] = stored[Cardinality({j \in kept : j <= k})]
        IN  (/\ ret.op = "_fill_in_the_gaps"
             /\ ret.self.start_time < ret.self.end_time
             /\ NonOverlapping(ret.self.objects))
            => /\ ret.output # <<>>
               /\ ret.output[1].start_time = ret.self.start_time
               /\ ret.output[Len(ret.output)].end_time = ret.self.end_time
               /\ \A i \in 1..(Len(ret.output) - 1) :
                    ret.output[i + 1].start_time = ret.output[i].end_time
               /\ IsFilled(ret.output, ret.self.objects)
               /\ tier = ret.self

\* ---------------------------------------------------------------------
\* Bounds of containers (Spec and SpecGrid)
\* ---------------------------------------------------------------------
\* C18: on a tier constructed with any non-negative start_time and
\* end_time, add of a valid item succeeds and afterwards the tier's bounds
\* cover the item, start_time has not increased and end_time has not
\* decreased; so every stored element lies within the tier's bounds.
C18_AddWidensBounds ==
    /\ (last.op = "add")
         => /\ ~last.raised
            /\ tier.start_time <= last.item.start_time
            /\ last.item.end_time <= tier.end_time
            /\ tier.start_time <= last.pre.start_time
            /\ last.pre.end_time <= tier.end_time
    /\ \A k \in Positions(tier.objects) :
         /\ tier.start_time <= tier.objects[k].start_time
         /\ tier.objects[k].end_time <= tier.end_time

\* C19: after any sequence of append, extend, insert and delete on a
\* TextGrid its bounds cover every tier it contains.
C19_GridBoundsCoverTiers ==
    \A k \in Positions(tg.objects) :
        /\ tg.start_time <= tg.objects[k].start_time
        /\ tg.objects[k].end_time <= tg.end_time

====
